---- MODULE Spec2Model ----
(***************************************************************************)
(* MARC21 name reconciliation (marc.js): name normalisation, candidate     *)
(* selection by edit distance, the ISO 2709 binary codec, the MARCXML      *)
(* codec and the processMARCFile pipeline.                                 *)
(*                                                                         *)
(* Strings are sequences of code points (UTF-16 code units of the BMP),    *)
(* byte buffers are sequences of 0..255.  JavaScript null is the empty     *)
(* option <<>>, a present value v is <<v>>.                                *)
(***************************************************************************)
EXTENDS Integers, Sequences, FiniteSets, TLC

VARIABLES fn, args, out   \* pure-function specification: the call in progress

fnVars == <<fn, args, out>>

(***************************************************************************)
(* Bounds of the pure-function specification.                              *)
(***************************************************************************)
MaxNameLen == 3
MaxPow == 3

(***************************************************************************)
(* Generic helpers.                                                        *)
(***************************************************************************)
Null == <<>>
Some(v) == <<v>>

Min(S) == CHOOSE m \in S : \A o \in S : m <= o

\* a function with domain 1..n as a tuple
TupleOf(f) == SubSeq(f, 1, Len(f))

Range(s) == {s[i] : i \in 1..Len(s)}

RECURSIVE SeqsUpTo(_, _)
SeqsUpTo(A, n) ==
  IF n = 0 THEN {<<>>}
  ELSE LET Shorter == SeqsUpTo(A, n - 1)
       IN  Shorter \cup {Append(s, c) : s \in {t \in Shorter : Len(t) = n - 1}, c \in A}

Count(s, c) == Cardinality({i \in 1..Len(s) : s[i] = c})

RECURSIVE Pow10(_)
Pow10(k) == IF k = 0 THEN 1 ELSE 10 * Pow10(k - 1)

(***************************************************************************)
(* Character classes used by the regular expressions of marc.js.           *)
(***************************************************************************)
\* !"#$%&'()*+,-./:;<=>?@[\]^_`{|}~
Punctuation == (33..47) \cup (58..64) \cup (91..96) \cup (123..126)
\* ASCII members of the \s class
AsciiWhitespace == {9, 10, 11, 12, 13, 32}
LowerLetters == 97..122
UpperLetters == 65..90
Digits == 48..57

\* a lower-casing that changes nothing
KeepCase(s) == s

\* String.prototype.toLowerCase on a 7-bit string
toLowerCase(s) ==
  TupleOf([i \in 1..Len(s) |-> IF s[i] \in UpperLetters THEN s[i] + 32 ELSE s[i]])

\* Unicode compatibility decomposition of one code point: ASCII is fixed,
\* U+00E9 -> e U+0301, U+00A0 -> space, U+FF0C -> comma; a combining mark
\* decomposes to itself.
NFKDChar(c) ==
  CASE c = 233   -> <<101, 769>>
    [] c = 160   -> <<32>>
    [] c = 65292 -> <<44>>
    [] OTHER     -> <<c>>

RECURSIVE NFKD(_)
NFKD(s) == IF s = <<>> THEN <<>> ELSE NFKDChar(Head(s)) \o NFKD(Tail(s))

\* Array.prototype.sort with the default comparison on one-unit strings
RECURSIVE Insert(_, _)
Insert(sorted, c) ==
  IF sorted = <<>> THEN <<c>>
  ELSE IF c < Head(sorted) THEN <<c>> \o sorted
       ELSE <<Head(sorted)>> \o Insert(Tail(sorted), c)

RECURSIVE sort(_)
sort(s) == IF s = <<>> THEN <<>> ELSE Insert(sort(Tail(s)), Head(s))

Unsorted(s) == s

\* norm.split('').sort().join('')
SortChars(s) == sort(s)

(***************************************************************************)
(* normalizeString                                                         *)
(***************************************************************************)
StripPunctuation(s) == SelectSeq(s, LAMBDA c : c \notin Punctuation)
StripNonAscii(s) == SelectSeq(s, LAMBDA c : c <= 127)
StripWhitespace(s) == SelectSeq(s, LAMBDA c : c \notin AsciiWhitespace)

\* norm.match(/[a-z]/): index (1-based) of the first lower-case letter, 0 if none
FirstLetterIndex(s) ==
  LET L == {i \in 1..Len(s) : s[i] \in LowerLetters}
  IN  IF L = {} THEN 0 ELSE Min(L)

Unrotated(norm) == norm

\* the letters-onward part first, then the part before the first letter
Rotate(norm) ==
  LET k == FirstLetterIndex(norm)
  IN  IF k = 0 THEN norm
      ELSE SubSeq(norm, k, Len(norm)) \o SubSeq(norm, 1, k - 1)

normalizeString(str) ==
  LET n1 == StripPunctuation(str)
      n2 == StripNonAscii(NFKD(n1))
      n3 == toLowerCase(n2)
      n4 == StripWhitespace(n3)
      n5 == SortChars(n4)
  IN  Rotate(n5)

(***************************************************************************)
(* levenshteinDistance: the full dynamic-programming matrix, row by row.   *)
(* A row is the sequence matrix[i][0..len2], stored at indices 1..len2+1.  *)
(***************************************************************************)
Min3(a, b, c) == Min({a, b, c})

\* a substitution that costs as much as a deletion and an insertion
SubstitutionCostTwo(c1, c2) == IF c1 = c2 THEN 0 ELSE 2

\* str1[i - 1] === str2[j - 1] ? 0 : 1
SubstitutionCost(c1, c2) == IF c1 = c2 THEN 0 ELSE 1

RECURSIVE FillRow(_, _, _, _)
FillRow(prev, ch, str2, cur) ==
  LET j == Len(cur)
  IN  IF j > Len(str2) THEN cur
      ELSE FillRow(prev, ch, str2,
             Append(cur, Min3(prev[j + 1] + 1,
                              cur[j] + 1,
                              prev[j] + SubstitutionCost(ch, str2[j]))))

RECURSIVE MatrixRow(_, _, _)
MatrixRow(str1, str2, i) ==
  IF i = 0 THEN TupleOf([j \in 1..(Len(str2) + 1) |-> j - 1])
  ELSE FillRow(MatrixRow(str1, str2, i - 1), str1[i], str2, <<i>>)

levenshteinDistance(str1, str2) == MatrixRow(str1, str2, Len(str1))[Len(str2) + 1]

(***************************************************************************)
(* convertLCCN / createLCCNUri                                             *)
(***************************************************************************)
\* String(n) for a non-negative integer
RECURSIVE StringOf(_)
StringOf(n) == IF n < 10 THEN <<48 + n>> ELSE Append(StringOf(n \div 10), 48 + (n % 10))

\* a prefix table that has lost its last row
prefixMapShort(d) ==
  CASE d = 49 -> Some(<<110, 98>>)
    [] d = 50 -> Some(<<110, 110>>)
    [] d = 51 -> Some(<<110, 111>>)
    [] d = 52 -> Some(<<110, 114>>)
    [] d = 53 -> Some(<<110, 115>>)
    [] OTHER  -> Null

\* prefixMap: '1' nb, '2' nn, '3' no, '4' nr, '5' ns, '6' n
prefixMap(d) ==
  CASE d = 49 -> Some(<<110, 98>>)
    [] d = 50 -> Some(<<110, 110>>)
    [] d = 51 -> Some(<<110, 111>>)
    [] d = 52 -> Some(<<110, 114>>)
    [] d = 53 -> Some(<<110, 115>>)
    [] d = 54 -> Some(<<110>>)
    [] OTHER  -> Null

convertLCCN(numericLccn) ==
  LET lccnStr == StringOf(numericLccn)
      prefix == prefixMap(lccnStr[1])
  IN  IF prefix = Null THEN Null
      ELSE Some(prefix[1] \o Tail(lccnStr))

\* "http://id.loc.gov/authorities/names/"
UriBase == <<104, 116, 116, 112, 58, 47, 47, 105, 100, 46, 108, 111, 99, 46,
             103, 111, 118, 47, 97, 117, 116, 104, 111, 114, 105, 116, 105,
             101, 115, 47, 110, 97, 109, 101, 115, 47>>

createLCCNUri(numericLccn) ==
  LET converted == convertLCCN(numericLccn)
  IN  IF converted = Null THEN Null ELSE Some(UriBase \o converted[1])

(***************************************************************************)
(* findBestLCCNMatch.  lccnData is [kind |-> "number", lccn |-> n] or      *)
(* [kind |-> "list", items |-> <<[lccn |-> n, label |-> s], ...>>].        *)
(***************************************************************************)
\* s.toLowerCase().replace(/[^a-z0-9]/g, '')
ScoreKey(s) == SelectSeq(toLowerCase(s), LAMBDA c : c \in LowerLetters \cup Digits)

BetterOrEqual(distance, bestDistance) == distance <= bestDistance

\* distance < bestDistance
Better(distance, bestDistance) == distance < bestDistance

\* the comparison distance < bestDistance; bestDistance starts at Infinity
IsBetter(distance, best) == best = Null \/ Better(distance, best[1].distance)

RECURSIVE ScanCandidates(_, _, _, _)
ScanCandidates(normalizedInput, items, k, best) ==
  IF k > Len(items) THEN best
  ELSE LET item == items[k]
           distance == levenshteinDistance(normalizedInput, ScoreKey(item.label))
       IN  ScanCandidates(normalizedInput, items, k + 1,
             IF IsBetter(distance, best)
             THEN Some([lccn |-> item.lccn, label |-> Some(item.label),
                        distance |-> distance])
             ELSE best)

findBestLCCNMatch(originalName, lccnData) ==
  IF lccnData.kind # "list"
  THEN Some([lccn |-> lccnData.lccn, label |-> Null, distance |-> 0])
  ELSE ScanCandidates(ScoreKey(originalName), lccnData.items, 1, Null)

(***************************************************************************)
(* JavaScript numbers that may be NaN: NaN is <<>>, the number n is <<n>>. *)
(***************************************************************************)
NaN == <<>>
Num(n) == <<n>>
IsNaN(x) == x = NaN
Plus(x, y) == IF IsNaN(x) \/ IsNaN(y) THEN NaN ELSE Num(x[1] + y[1])

Max(S) == CHOOSE m \in S : \A o \in S : m >= o

\* white space skipped by parseInt (the members that fit in a byte)
StrWhiteSpace == {9, 10, 11, 12, 13, 32}

RECURSIVE DigitsValue(_)
DigitsValue(ds) ==
  IF ds = <<>> THEN 0 ELSE 10 * DigitsValue(SubSeq(ds, 1, Len(ds) - 1)) + (ds[Len(ds)] - 48)

\* parseInt(s, 10): leading white space, an optional sign, then the longest
\* run of decimal digits; NaN when that run is empty
parseInt(s) ==
  LET NonWs == {i \in 1..Len(s) : s[i] \notin StrWhiteSpace}
      first == IF NonWs = {} THEN Len(s) + 1 ELSE Min(NonWs)
      signed == first <= Len(s) /\ s[first] \in {43, 45}
      start == IF signed THEN first + 1 ELSE first
      NonDigit == {i \in start..Len(s) : s[i] \notin Digits}
      stop == IF NonDigit = {} THEN Len(s) + 1 ELSE Min(NonDigit)
      magnitude == DigitsValue(SubSeq(s, start, stop - 1))
  IN  IF stop = start THEN NaN
      ELSE IF signed /\ s[first] = 45 THEN Num(0 - magnitude) ELSE Num(magnitude)

\* relative index of TypedArray.prototype.slice / String.prototype.substring
RelativeIndex(x, len) ==
  IF IsNaN(x) THEN 0
  ELSE IF x[1] < 0 THEN Max({len + x[1], 0})
  ELSE Min({x[1], len})

\* data.slice(begin, end) on a typed array, 0-based, end exclusive
Slice(data, begin, end) ==
  LET from == RelativeIndex(begin, Len(data))
      to == RelativeIndex(end, Len(data))
  IN  SubSeq(data, from + 1, to)

\* str.substring(begin, end) with 0 <= begin <= end
substring(str, begin, end) ==
  SubSeq(str, Min({begin, Len(str)}) + 1, Min({end, Len(str)}))

RECURSIVE Repeat(_, _)
Repeat(c, n) == IF n <= 0 THEN <<>> ELSE <<c>> \o Repeat(c, n - 1)

padStart(str, width, c) == Repeat(c, width - Len(str)) \o str
padEnd(str, width, c) == str \o Repeat(c, width - Len(str))

(***************************************************************************)
(* TextDecoder('utf-8') and TextEncoder.  Bytes are drawn from 7-bit ASCII *)
(* and 0xFF (never valid in UTF-8); the encoder adds the lead byte 0xEF    *)
(* and continuation bytes, so the decoder knows one-byte sequences, the    *)
(* three-byte sequences led by 0xEF, and replaces everything else by       *)
(* U+FFFD, one per maximal ill-formed subpart.                             *)
(***************************************************************************)
ReplacementChar == 65533
Continuation == 128..191
LeadEF == 239

\* is the byte at i the 2nd or 3rd byte of a sequence opened by 0xEF
ConsumedByLead(b, i) ==
  /\ b[i] \in Continuation
  /\ \/ i >= 2 /\ b[i - 1] = LeadEF
     \/ i >= 3 /\ b[i - 2] = LeadEF /\ b[i - 1] \in Continuation

\* the characters the decoder emits for the byte at i
DecodeAt(b, i) ==
  IF b[i] < 128 THEN <<b[i]>>
  ELSE IF b[i] = LeadEF
       THEN IF i + 2 <= Len(b) /\ b[i + 1] \in Continuation /\ b[i + 2] \in Continuation
            THEN <<61440 + (b[i + 1] - 128) * 64 + (b[i + 2] - 128)>>
            ELSE <<ReplacementChar>>
  ELSE IF ConsumedByLead(b, i) THEN <<>>
  ELSE <<ReplacementChar>>

RECURSIVE DecodeRange(_, _, _)
DecodeRange(b, lo, hi) ==
  IF lo > hi THEN <<>>
  ELSE IF lo = hi THEN DecodeAt(b, lo)
  ELSE LET mid == (lo + hi) \div 2
       IN  DecodeRange(b, lo, mid) \o DecodeRange(b, mid + 1, hi)

\* decoder.decode(bytes)
decode(b) == DecodeRange(b, 1, Len(b))

\* UTF-8 bytes of one BMP code point (no surrogates arise)
EncodeChar(c) ==
  IF c < 128 THEN <<c>>
  ELSE IF c < 2048 THEN <<192 + (c \div 64), 128 + (c % 64)>>
  ELSE <<224 + (c \div 4096), 128 + ((c \div 64) % 64), 128 + (c % 64)>>

RECURSIVE EncodeRange(_, _, _)
EncodeRange(str, lo, hi) ==
  IF lo > hi THEN <<>>
  ELSE IF lo = hi THEN EncodeChar(str[lo])
  ELSE LET mid == (lo + hi) \div 2
       IN  EncodeRange(str, lo, mid) \o EncodeRange(str, mid + 1, hi)

\* encoder.encode(str)
encode(str) == EncodeRange(str, 1, Len(str))

\* String.fromCharCode(bytes[index]) with a 0-based index; undefined gives U+0000
fromCharCode(bytes, index) == IF index < Len(bytes) THEN <<bytes[index + 1]>> ELSE <<0>>

(***************************************************************************)
(* MARC21 binary format constants                                          *)
(***************************************************************************)
RECORD_TERMINATOR == 29
FIELD_TERMINATOR == 30
SUBFIELD_DELIMITER == 31

(***************************************************************************)
(* A subfields object: the own properties of a JavaScript object in        *)
(* property order (integer-like keys ascending first, then the other keys  *)
(* in insertion order).  A property is [code, isArray, values]; a string   *)
(* value has isArray = FALSE and one element in values.                    *)
(***************************************************************************)
\* canonical array index: "0" or a digit string without a leading zero
IsIntegerKey(code) ==
  /\ code # <<>>
  /\ \A i \in 1..Len(code) : code[i] \in Digits
  /\ (Len(code) > 1 => code[1] # 48)

HasProp(obj, code) == \E k \in 1..Len(obj) : obj[k].code = code
PropIndex(obj, code) == CHOOSE k \in 1..Len(obj) : obj[k].code = code
GetProp(obj, code) == obj[PropIndex(obj, code)]

StringValue(v) == [isArray |-> FALSE, values |-> <<v>>]

\* position at which a new key is created
InsertPosition(obj, code) ==
  IF IsIntegerKey(code)
  THEN Cardinality({k \in 1..Len(obj) :
                      IsIntegerKey(obj[k].code) /\ DigitsValue(obj[k].code) < DigitsValue(code)}) + 1
  ELSE Len(obj) + 1

\* obj[code] = value
SetProp(obj, code, value) ==
  LET prop == [code |-> code, isArray |-> value.isArray, values |-> value.values]
  IN  IF HasProp(obj, code)
      THEN [obj EXCEPT ![PropIndex(obj, code)] = prop]
      ELSE LET at == InsertPosition(obj, code)
           IN  SubSeq(obj, 1, at - 1) \o <<prop>> \o SubSeq(obj, at, Len(obj))

\* !obj[code]: the property is missing or is the empty string
IsFalsy(obj, code) ==
  \/ ~HasProp(obj, code)
  \/ (~GetProp(obj, code).isArray /\ GetProp(obj, code).values = << <<>> >>)

\* the decode-time accumulation of one subfield value under its code
AddSubfield(subfields, code, value) ==
  IF IsFalsy(subfields, code)
  THEN SetProp(subfields, code, StringValue(value))
  ELSE LET old == GetProp(subfields, code)
       IN  SetProp(subfields, code, [isArray |-> TRUE, values |-> Append(old.values, value)])

(***************************************************************************)
(* BinaryMARCParser.  Offsets are 0-based as in the source; data[k] of the *)
(* source is data[k + 1] here.                                             *)
(***************************************************************************)
\* first position >= from (1-based) whose byte is in S, Len(data) + 1 if none
NextIn(data, from, S) ==
  LET C == {e \in from..Len(data) : data[e] \in S}
  IN  IF C = {} THEN Len(data) + 1 ELSE Min(C)

RECURSIVE ParseSubfieldsFrom(_, _, _)
ParseSubfieldsFrom(data, i, subfields) ==
  IF i > Len(data) THEN subfields
  ELSE IF data[i] = SUBFIELD_DELIMITER
       THEN LET code == fromCharCode(data, i)
                end == NextIn(data, i + 2, {SUBFIELD_DELIMITER, FIELD_TERMINATOR})
                value == decode(SubSeq(data, i + 2, end - 1))
            IN  ParseSubfieldsFrom(data, end, AddSubfield(subfields, code, value))
       ELSE ParseSubfieldsFrom(data, NextIn(data, i + 1, {SUBFIELD_DELIMITER}), subfields)

parseSubfields(data) == ParseSubfieldsFrom(data, 1, <<>>)

\* tag.match(/^00/)
IsControlTag(tag) == Len(tag) >= 2 /\ tag[1] = 48 /\ tag[2] = 48

\* one directory entry and the field it describes
DirectoryField(data, startOffset, baseAddress, directoryOffset) ==
  LET tag == decode(Slice(data, Num(directoryOffset), Num(directoryOffset + 3)))
      fieldLength == parseInt(decode(Slice(data, Num(directoryOffset + 3), Num(directoryOffset + 7))))
      fieldStart == parseInt(decode(Slice(data, Num(directoryOffset + 7), Num(directoryOffset + 12))))
      fieldDataOffset == Plus(Plus(Num(startOffset), baseAddress), fieldStart)
      fieldData == Slice(data, fieldDataOffset, Plus(Plus(fieldDataOffset, fieldLength), Num(-1)))
  IN  IF IsControlTag(tag)
      THEN [tag |-> tag, offset |-> fieldDataOffset, length |-> fieldLength,
            data |-> decode(fieldData)]
      ELSE [tag |-> tag, offset |-> fieldDataOffset, length |-> fieldLength,
            ind1 |-> fromCharCode(fieldData, 0),
            ind2 |-> fromCharCode(fieldData, 1),
            subfields |-> parseSubfields(Slice(fieldData, Num(2), Num(Len(fieldData))))]

\* the directory loop: while (directoryOffset < directoryEnd)
RECURSIVE ParseDirectory(_, _, _, _, _)
ParseDirectory(data, startOffset, baseAddress, directoryOffset, fields) ==
  LET directoryEnd == Plus(Plus(Num(startOffset), baseAddress), Num(-1))
      tag == decode(Slice(data, Num(directoryOffset), Num(directoryOffset + 3)))
  IN  IF IsNaN(directoryEnd) \/ ~(directoryOffset < directoryEnd[1]) THEN fields
      ELSE IF tag = <<FIELD_TERMINATOR>> \/ tag = <<>> THEN fields
      ELSE ParseDirectory(data, startOffset, baseAddress, directoryOffset + 12,
             Append(fields, DirectoryField(data, startOffset, baseAddress, directoryOffset)))

\* parseRecord(startOffset): null, or the record (rawData, which nothing
\* reads, is left out)
parseRecord(data, startOffset) ==
  LET leader == decode(Slice(data, Num(startOffset), Num(startOffset + 24)))
      recordLength == parseInt(substring(leader, 0, 5))
      baseAddress == parseInt(substring(leader, 12, 17))
  IN  IF IsNaN(recordLength) \/ recordLength[1] <= 0 THEN Null
      ELSE Some([startOffset |-> startOffset,
                 endOffset |-> startOffset + recordLength[1],
                 leader |-> leader,
                 fields |-> ParseDirectory(data, startOffset, baseAddress, startOffset + 24, <<>>)])

\* the scan loop of parse(): while (offset < this.data.length)
RECURSIVE ParseFrom(_, _, _)
ParseFrom(data, offset, records) ==
  IF ~(offset < Len(data)) THEN records
  ELSE IF data[offset + 1] = 0 \/ offset + 24 >= Len(data) THEN records
  ELSE LET record == parseRecord(data, offset)
       IN  IF record = Null THEN records
           ELSE ParseFrom(data, record[1].endOffset, Append(records, record[1]))

\* a scan that returns after the first record
parseFirstRecord(data) ==
  LET record == parseRecord(data, 0)
  IN  IF Len(data) <= 24 \/ data[1] = 0 \/ record = Null THEN <<>> ELSE <<record[1]>>

\* new BinaryMARCParser(arrayBuffer).parse()
parse(data) == ParseFrom(data, 0, <<>>)

(***************************************************************************)
(* rebuildRecord / exportBinary.  A thrown RangeError is the result Null.  *)
(***************************************************************************)
RECURSIVE Concat(_)
Concat(parts) == IF parts = <<>> THEN <<>> ELSE Head(parts) \o Concat(Tail(parts))

\* bytes of the values of one subfields property: delimiter, code, value
RECURSIVE PropBytes(_, _)
PropBytes(code, values) ==
  IF values = <<>> THEN <<>>
  ELSE <<SUBFIELD_DELIMITER, code[1] % 256>> \o encode(Head(values)) \o PropBytes(code, Tail(values))

RECURSIVE SubfieldBytes(_)
SubfieldBytes(subfields) ==
  IF subfields = <<>> THEN <<>>
  ELSE PropBytes(Head(subfields).code, Head(subfields).values) \o SubfieldBytes(Tail(subfields))

\* fieldDataWithTerminator of one field
FieldBytes(field) ==
  (IF IsControlTag(field.tag)
   THEN encode(field.data)
   ELSE <<field.ind1[1] % 256, field.ind2[1] % 256>> \o SubfieldBytes(field.subfields))
  \o <<FIELD_TERMINATOR>>

RECURSIVE SumLengths(_)
SumLengths(parts) == IF parts = <<>> THEN 0 ELSE Len(Head(parts)) + SumLengths(Tail(parts))

\* tag (3) + length (4) + offset (5), as encoded bytes
DirectoryEntry(field, fieldLength, currentOffset) ==
  encode(padEnd(field.tag, 3, 32)
         \o padStart(StringOf(fieldLength), 4, 48)
         \o padStart(StringOf(currentOffset), 5, 48))

\* target.set(source, offset): Null when source does not fit
TypedArraySet(target, source, offset) ==
  IF Len(source) + offset > Len(target) THEN Null
  ELSE Some(SubSeq(target, 1, offset) \o source
            \o SubSeq(target, offset + Len(source) + 1, Len(target)))

\* new Uint8Array(n)
Zeros(n) == TupleOf([k \in 1..n |-> 0])

\* for (const entry of directoryEntries) { directory.set(entry, dirOffset); dirOffset += 12 }
RECURSIVE SetEntries(_, _, _)
SetEntries(directory, entries, dirOffset) ==
  IF entries = <<>> THEN Some(directory)
  ELSE LET placed == TypedArraySet(directory, Head(entries), dirOffset)
       IN  IF placed = Null THEN Null
           ELSE SetEntries(placed[1], Tail(entries), dirOffset + 12)

rebuildRecord(record) ==
  LET fields == record.fields
      fieldDataParts == TupleOf([k \in 1..Len(fields) |-> FieldBytes(fields[k])])
      directoryEntries ==
        TupleOf([k \in 1..Len(fields) |->
                   DirectoryEntry(fields[k], Len(fieldDataParts[k]),
                                  SumLengths(SubSeq(fieldDataParts, 1, k - 1)))])
      fieldData == Concat(fieldDataParts)
      directoryLength == Len(directoryEntries) * 12 + 1
      entriesSet == SetEntries(Zeros(directoryLength), directoryEntries, 0)
      baseAddress == 24 + directoryLength
      recordLength == baseAddress + Len(fieldData) + 1
      leader == encode(substring(
                  padEnd(padStart(StringOf(recordLength), 5, 48)
                         \o substring(record.leader, 5, 12)
                         \o padStart(StringOf(baseAddress), 5, 48)
                         \o substring(record.leader, 17, 20)
                         \o <<52, 53, 48, 48>>, 24, 32), 0, 24))
  IN  IF entriesSet = Null THEN Null
      ELSE LET directory == SubSeq(entriesSet[1], 1, Len(directoryEntries) * 12)
                             \o <<FIELD_TERMINATOR>>
               withLeader == TypedArraySet(Zeros(recordLength), leader, 0)
           IN  IF withLeader = Null THEN Null
               ELSE LET withDirectory == TypedArraySet(withLeader[1], directory, 24)[1]
                        withFields == TypedArraySet(withDirectory, fieldData, baseAddress)[1]
                    IN  Some(SubSeq(withFields, 1, recordLength - 1) \o <<RECORD_TERMINATOR>>)

\* exportBinary(): the rebuilt records, concatenated in order
exportBinary(records) ==
  LET rebuilt == TupleOf([k \in 1..Len(records) |-> rebuildRecord(records[k])])
  IN  IF \E k \in 1..Len(records) : rebuilt[k] = Null THEN Null
      ELSE Some(Concat(TupleOf([k \in 1..Len(records) |-> rebuilt[k][1]])))

(***************************************************************************)
(* MARCXMLParser.  The document is the tree DOMParser returns: either a    *)
(* parsererror or a sequence of record elements, each with an optional     *)
(* leader and child elements in document order:                            *)
(*   [name |-> "controlfield", tag, text]                                  *)
(*   [name |-> "datafield", tag, ind1, ind2, subfields]                    *)
(* where ind1/ind2 are attribute values (Null when absent) and subfields   *)
(* is the sequence of [code, text] subfield elements.  A field's element   *)
(* handle is the index of its element among the record's children.         *)
(***************************************************************************)
ChildIndexes(recordEl, name) ==
  SelectSeq(TupleOf([k \in 1..Len(recordEl.children) |-> k]),
            LAMBDA k : recordEl.children[k].name = name)

\* the subfields object of a datafield element
RECURSIVE ElementSubfields(_, _, _)
ElementSubfields(els, k, subfields) ==
  IF k > Len(els) THEN subfields
  ELSE ElementSubfields(els, k + 1, AddSubfield(subfields, els[k].code, els[k].text))

\* df.getAttribute(name) || ' '
AttributeOrBlank(value) == IF value = Null \/ value = Some(<<>>) THEN <<32>> ELSE value[1]

XmlControlField(recordEl, k) ==
  [tag |-> recordEl.children[k].tag, data |-> recordEl.children[k].text, element |-> k]

XmlDataField(recordEl, k) ==
  LET df == recordEl.children[k]
  IN  [tag |-> df.tag,
       ind1 |-> AttributeOrBlank(df.ind1),
       ind2 |-> AttributeOrBlank(df.ind2),
       subfields |-> ElementSubfields(df.subfields, 1, <<>>),
       element |-> k]

\* one record: control fields first, then data fields
XmlRecord(recordEl, i) ==
  LET cf == ChildIndexes(recordEl, "controlfield")
      df == ChildIndexes(recordEl, "datafield")
  IN  [index |-> i,
       element |-> i + 1,
       leader |-> recordEl.leader,
       fields |-> TupleOf([j \in 1..Len(cf) |-> XmlControlField(recordEl, cf[j])])
                  \o TupleOf([j \in 1..Len(df) |-> XmlDataField(recordEl, df[j])])]

\* a parse that does not look for the parsererror element
XmlParseLenient(doc) ==
  Some(TupleOf([r \in 1..Len(doc.records) |-> XmlRecord(doc.records[r], r - 1)]))

\* MARCXMLParser.parse(): Null stands for the thrown 'XML parsing error'
XmlParse(doc) ==
  IF doc.parsererror THEN Null
  ELSE Some(TupleOf([r \in 1..Len(doc.records) |-> XmlRecord(doc.records[r], r - 1)]))

\* an update that appends a new $0 element whatever the field holds
AppendZeroSubfieldElement(df, uri) ==
  [df EXCEPT !.subfields = Append(@, [code |-> <<48>>, text |-> uri])]

\* the DOM part of updateSubfieldZero on one datafield element
SetZeroSubfieldElement(df, uri) ==
  LET Zero == {k \in 1..Len(df.subfields) : df.subfields[k].code = <<48>>}
  IN  IF Zero # {}
      THEN [df EXCEPT !.subfields[Min(Zero)].text = uri]
      ELSE [df EXCEPT !.subfields = Append(@, [code |-> <<48>>, text |-> uri])]

\* updateSubfieldZero(field, uri): the document after the call
updateSubfieldZeroDom(doc, recordPos, field, uri) ==
  [doc EXCEPT !.records[recordPos].children[field.element] = SetZeroSubfieldElement(@, uri)]

\* updateSubfieldZero(field, uri): the field after the call
updateSubfieldZeroField(field, uri) ==
  [field EXCEPT !.subfields = SetProp(@, <<48>>, StringValue(uri))]

(***************************************************************************)
(* Pipeline helpers                                                        *)
(***************************************************************************)
MAX_LEVENSHTEIN_DISTANCE == 10

\* '100', '110', '700', '710'
nameFieldTags == {<<49, 48, 48>>, <<49, 49, 48>>, <<55, 48, 48>>, <<55, 49, 48>>}

\* a, b, c, q, d, g
NameSubfieldOrder == <<97, 98, 99, 113, 100, 103>>

RECURSIVE Join(_, _)
Join(parts, sep) ==
  IF parts = <<>> THEN <<>>
  ELSE IF Len(parts) = 1 THEN parts[1]
  ELSE parts[1] \o sep \o Join(Tail(parts), sep)

\* String(value) of a subfields property: an array joins its values by ','
PropString(prop) == IF prop.isArray THEN Join(prop.values, <<44>>) ELSE prop.values[1]

\* white space removed by String.prototype.trim
TrimSet == AsciiWhitespace \cup {160, 5760, 8232, 8233, 8239, 8287, 12288, 65279} \cup (8192..8202)

trim(str) ==
  LET Kept == {k \in 1..Len(str) : str[k] \notin TrimSet}
  IN  IF Kept = {} THEN <<>> ELSE SubSeq(str, Min(Kept), Max(Kept))

RECURSIVE NameParts(_, _)
NameParts(subfields, k) ==
  IF k > Len(NameSubfieldOrder) THEN <<>>
  ELSE LET code == <<NameSubfieldOrder[k]>>
       IN  (IF IsFalsy(subfields, code) THEN <<>> ELSE <<PropString(GetProp(subfields, code))>>)
           \o NameParts(subfields, k + 1)

extractNameFromSubfields(subfields) == trim(Join(NameParts(subfields, 1), <<32>>))

\* str.endsWith(suffix)
endsWith(str, suffix) ==
  Len(str) >= Len(suffix) /\ SubSeq(str, Len(str) - Len(suffix) + 1, Len(str)) = suffix

ExtXml == <<46, 120, 109, 108>>
ExtMrc == <<46, 109, 114, 99>>
ExtMarc == <<46, 109, 97, 114, 99>>

detectFileType(file) ==
  LET name == toLowerCase(file.name)
  IN  IF endsWith(name, ExtXml) THEN "xml"
      ELSE IF endsWith(name, ExtMrc) \/ endsWith(name, ExtMarc) THEN "binary"
      ELSE "xml"

\* name.replace(/suffix$/, replacement)
ReplaceSuffix(name, suffix, replacement) ==
  IF endsWith(name, suffix)
  THEN SubSeq(name, 1, Len(name) - Len(suffix)) \o replacement
  ELSE name

\* file.name.replace(/\.xml$/, '_enhanced.xml')
XmlOutputFilename(name) ==
  ReplaceSuffix(name, ExtXml, <<95, 101, 110, 104, 97, 110, 99, 101, 100>> \o ExtXml)

\* file.name.replace(/\.(mrc|marc)$/, '_enhanced.mrc')
BinaryOutputFilename(name) ==
  IF endsWith(name, ExtMrc)
  THEN ReplaceSuffix(name, ExtMrc, <<95, 101, 110, 104, 97, 110, 99, 101, 100>> \o ExtMrc)
  ELSE ReplaceSuffix(name, ExtMarc, <<95, 101, 110, 104, 97, 110, 99, 101, 100>> \o ExtMrc)

\* a get that answers an index past the end with the last entry
LookupGetClamped(data, index) ==
  IF index < 0 THEN [kind |-> "null"]
  ELSE IF index >= Len(data) THEN data[Len(data)] ELSE data[index + 1]

\* LookupDecoder.get(index) on the array data
LookupGet(data, index) ==
  IF index < 0 \/ index >= Len(data) THEN [kind |-> "null"] ELSE data[index + 1]

\* !lccnData
LccnDataMissing(lccnData) ==
  \/ lccnData.kind = "null"
  \/ (lccnData.kind = "number" /\ lccnData.lccn = 0)

\* 20 + Math.floor(((i + 1) / records.length) * 75), i 0-based
ProcessingPercent(i, n) == 20 + (((i + 1) * 75) \div n)

(***************************************************************************)
(* State of processMARCFile                                                *)
(***************************************************************************)
VARIABLES
  file,            \* the File handed to processMARCFile
  pc,              \* position of processMARCFile between two awaits
  fileType,        \* result of detectFileType
  parser,          \* "none", or the class of the parser constructed
  records,         \* parser.records
  doc,             \* the live XML document of MARCXMLParser (Null before parse)
  report,          \* the report object
  progress,        \* the events handed to progressCallback, in order
  recIdx, fldIdx,  \* record index (0-based) and field index (1-based) of the loops
  trieMemo,        \* the answers trie.lookup has given so far, by key
  result,          \* the returned { outputBlob, outputFilename, report }
  error,           \* the error processMARCFile threw
  previous         \* how the run before this one ended (Null in a first run)

pipeVars == <<file, pc, fileType, parser, records, doc, report, progress, recIdx, fldIdx,
              trieMemo, result, error, previous>>
vars == <<fnVars, pipeVars>>

(***************************************************************************)
(* Inputs of the pure-function specification.                              *)
(***************************************************************************)
\* B a 1 , space e-acute
NameAlphabet == {66, 97, 49, 44, 32, 233}
Whitespace == AsciiWhitespace \cup {160}

\* "Woolf, Virginia, 1882-1941"
WoolfName == <<87, 111, 111, 108, 102, 44, 32, 86, 105, 114, 103, 105, 110,
               105, 97, 44, 32, 49, 56, 56, 50, 45, 49, 57, 52, 49>>

\* "1" fullwidth-comma "a"
FullwidthName == <<49, 65292, 97>>

NameInputs == SeqsUpTo(NameAlphabet, MaxNameLen) \cup {WoolfName, FullwidthName}

\* p has the characters of s in some order, whitespace aside
IsRearrangement(p, s) ==
  \A c \in (Range(p) \cup Range(s)) \ Whitespace : Count(p, c) = Count(s, c)

LccnRests == {0, 7, 41, 305, 9999}
LccnInputs ==
  {0} \cup {t[1] * Pow10(t[2]) + t[3] :
              t \in {u \in (1..9) \X (0..MaxPow) \X LccnRests : u[3] < Pow10(u[2])}}
      \cup {d * 100000000 + 79041849 : d \in 1..9}

\* "S. E. A."   "Esa"   "E. A. S."   "Sea!"
LabelSEA == <<83, 46, 32, 69, 46, 32, 65, 46>>
LabelEsa == <<69, 115, 97>>
LabelEAS == <<69, 46, 32, 65, 46, 32, 83, 46>>
LabelSea == <<83, 101, 97, 33>>
Labels == {LabelSEA, LabelEsa, LabelEAS, LabelSea, <<>>}

MaxCandidates == 3
\* the candidate at position k carries the identifier k79041849
CandidateId(k) == k * 100000000 + 79041849
CandidateLists ==
  {[k \in 1..Len(ls) |-> [lccn |-> CandidateId(k), label |-> ls[k]]] :
     ls \in SeqsUpTo(Labels, MaxCandidates)}

(***************************************************************************)
(* The pure-function specification: one call at a time.                    *)
(***************************************************************************)
\* the pipeline variables of a state in which processMARCFile is not running
PipelineIdle ==
  /\ file = [name |-> <<>>] /\ pc = "idle" /\ fileType = "" /\ parser = "none"
  /\ records = <<>> /\ doc = <<>> /\ report = <<>> /\ progress = <<>>
  /\ recIdx = 0 /\ fldIdx = 0 /\ trieMemo = <<>> /\ result = <<>> /\ error = <<>>
  /\ previous = <<>>

InitFn == fn = "idle" /\ args = <<>> /\ out = <<>> /\ PipelineIdle

CallNormalizeString ==
  /\ fn = "idle"
  /\ \E s \in NameInputs : \E p \in {q \in NameInputs : IsRearrangement(q, s)} :
        /\ fn' = "normalizeString"
        /\ args' = <<s, p>>
        /\ out' = <<normalizeString(s), normalizeString(p)>>
  /\ UNCHANGED pipeVars

CallCreateLCCNUri ==
  /\ fn = "idle"
  /\ \E n \in LccnInputs :
        /\ fn' = "createLCCNUri"
        /\ args' = <<n>>
        /\ out' = <<createLCCNUri(n), convertLCCN(n)>>
  /\ UNCHANGED pipeVars

CallFindBestLCCNMatch ==
  /\ fn = "idle"
  /\ \E name \in Labels \ {<<>>}, items \in CandidateLists :
        /\ fn' = "findBestLCCNMatch"
        /\ args' = <<name, [kind |-> "list", items |-> items]>>
        /\ out' = <<findBestLCCNMatch(name, [kind |-> "list", items |-> items])>>
  /\ UNCHANGED pipeVars

\* the subfields of a field in order of occurrence: codes a, d, e; values
\* "X" and "Y " (with a trailing space)
MaxSubfields == 3
SubfieldPairs == {<<97>>, <<100>>, <<101>>} \X {<<88>>, <<89, 32>>}
SubfieldLists == SeqsUpTo(SubfieldPairs, MaxSubfields)

\* the subfields object the parsers build from the occurrences
RECURSIVE SubfieldsOf(_, _, _)
SubfieldsOf(pairs, k, subfields) ==
  IF k > Len(pairs) THEN subfields
  ELSE SubfieldsOf(pairs, k + 1, AddSubfield(subfields, pairs[k][1], pairs[k][2]))

CallExtractNameFromSubfields ==
  /\ fn = "idle"
  /\ \E pairs \in SubfieldLists :
        /\ fn' = "extractNameFromSubfields"
        /\ args' = <<pairs>>
        /\ out' = <<extractNameFromSubfields(SubfieldsOf(pairs, 1, <<>>))>>
  /\ UNCHANGED pipeVars

\* the strings levenshteinDistance is called with
MaxEditLen == 3
EditAlphabet == {97, 98}
EditStrings == SeqsUpTo(EditAlphabet, MaxEditLen)

CallLevenshteinDistance ==
  /\ fn = "idle"
  /\ \E a \in EditStrings, b \in EditStrings :
        /\ fn' = "levenshteinDistance"
        /\ args' = <<a, b>>
        /\ out' = <<levenshteinDistance(a, b), levenshteinDistance(b, a)>>
  /\ UNCHANGED pipeVars

\* the subfields of a data field as they are decoded: codes a and 0; values
\* empty, "X", "Y"
DecodedPairs == {<<97>>, <<48>>} \X {<<>>, <<88>>, <<89>>}
DecodedLists == SeqsUpTo(DecodedPairs, MaxSubfields)

\* the bytes of the occurrences after the indicators, and their elements
BytesOfPairs(pairs) ==
  Concat(TupleOf([k \in 1..Len(pairs) |-> <<SUBFIELD_DELIMITER>> \o pairs[k][1] \o pairs[k][2]]))
ElementsOfPairs(pairs) ==
  TupleOf([k \in 1..Len(pairs) |-> [code |-> pairs[k][1], text |-> pairs[k][2]]])

CallParseSubfields ==
  /\ fn = "idle"
  /\ \E pairs \in DecodedLists :
        /\ fn' = "parseSubfields"
        /\ args' = <<pairs>>
        /\ out' = <<parseSubfields(BytesOfPairs(pairs)),
                    ElementSubfields(ElementsOfPairs(pairs), 1, <<>>)>>
  /\ UNCHANGED pipeVars

\* a data field 700 1# decoded from the occurrences (none with an empty
\* value), in a record of its own; withZero: the pipeline has set
\* field.subfields['0'] to the URI of n79041849
RebuiltPairs == SeqsUpTo({pr \in DecodedPairs : pr[2] # <<>>}, MaxSubfields)
MatchedUri == createLCCNUri(CandidateId(1))[1]
DecodedField(pairs, withZero) ==
  LET subfields == parseSubfields(BytesOfPairs(pairs))
  IN  [tag |-> <<55, 48, 48>>, ind1 |-> <<49>>, ind2 |-> <<32>>,
       subfields |-> IF withZero THEN SetProp(subfields, <<48>>, StringValue(MatchedUri))
                     ELSE subfields]

CallRebuildRecord ==
  /\ fn = "idle"
  /\ \E pairs \in RebuiltPairs, withZero \in BOOLEAN :
        /\ fn' = "rebuildRecord"
        /\ args' = <<pairs, withZero>>
        /\ out' = <<rebuildRecord([leader |-> <<48, 48, 48, 48, 48, 110, 97, 109, 32, 32, 50, 50,
                                                48, 48, 48, 48, 48, 32, 32, 32, 52, 53, 48, 48>>,
                                   fields |-> <<DecodedField(pairs, withZero)>>])>>
  /\ UNCHANGED pipeVars

Return ==
  /\ fn # "idle"
  /\ fn' = "idle" /\ args' = <<>> /\ out' = <<>>
  /\ UNCHANGED pipeVars

NextFn ==
  \/ CallNormalizeString
  \/ CallCreateLCCNUri
  \/ CallFindBestLCCNMatch
  \/ CallExtractNameFromSubfields
  \/ CallLevenshteinDistance
  \/ CallParseSubfields
  \/ CallRebuildRecord
  \/ Return

SpecFn == InitFn /\ [][NextFn]_vars

(***************************************************************************)
(* Inputs of processMARCFile: the lookup table, the trie and the files.    *)
(***************************************************************************)
MaxRecords == 3
\* number of records of the one long buffer
ManyRecords == 12

\* 500 MB in bytes: fileSize / 1024 / 1024 > 500
MaxXmlBytes == 524288000

\* "Aaaaaaaaaaa": eleven letters
LongName == <<65>> \o Repeat(97, 10)
\* "Aaaaaaaaaaa1"
LongerName == LongName \o <<49>>

\* length of a subfield that brings a field close to the 9999 bytes a
\* directory entry can express
BigValueLength == 9980

\* the decoded lookup array: null, a single LCCN, or a list of [lccn, label]
LookupData ==
  << [kind |-> "null"],
     [kind |-> "number", lccn |-> 679041849],
     [kind |-> "number", lccn |-> 779041849],
     [kind |-> "list", items |-> << [lccn |-> 179041849, label |-> LabelSEA],
                                    [lccn |-> 279041849, label |-> LabelEsa],
                                    [lccn |-> 379041849, label |-> LabelEAS] >>],
     [kind |-> "list", items |-> <<>>],
     [kind |-> "list", items |-> << [lccn |-> 479041849, label |-> <<65>>] >>],
     [kind |-> "list", items |-> << [lccn |-> 579041849, label |-> <<66>>],
                                    [lccn |-> 179041849, label |-> <<66, 98>>] >>],
     [kind |-> "list", items |-> << [lccn |-> 879041849, label |-> <<66>>] >>] >>

\* what trie.lookup can return: -1, an index of the lookup array, or one past it
TrieIds == -1..Len(LookupData)

\* ---- ISO 2709 buffers ----
Pad(n, width) == padStart(StringOf(n), width, 48)

Subfield(code, value) == <<SUBFIELD_DELIMITER, code>> \o value

\* a record with the given [tag, body] fields, laid out as parseRecord reads it
MarcBytes(fs) ==
  LET parts == TupleOf([k \in 1..Len(fs) |-> fs[k].body \o <<FIELD_TERMINATOR>>])
      dir == Concat(TupleOf([k \in 1..Len(fs) |->
                     fs[k].tag \o Pad(Len(parts[k]), 4)
                     \o Pad(SumLengths(SubSeq(parts, 1, k - 1)), 5)]))
             \o <<FIELD_TERMINATOR>>
      base == 24 + Len(dir)
      total == base + SumLengths(parts) + 1
  IN  Pad(total, 5) \o <<110, 97, 109, 32, 32, 50, 50>> \o Pad(base, 5)
      \o <<32, 32, 32, 52, 53, 48, 48>> \o dir \o Concat(parts) \o <<RECORD_TERMINATOR>>

\* 001 x1
Field001 == [tag |-> <<48, 48, 49>>, body |-> <<120, 49>>]
\* 700 1# $a S. E. A.
Field700 == [tag |-> <<55, 48, 48>>, body |-> <<49, 32>> \o Subfield(97, LabelSEA)]
\* 100 1# $a Aaaaaaaaaaa
Field100 == [tag |-> <<49, 48, 48>>, body |-> <<49, 32>> \o Subfield(97, LongName)]
\* 700 1# $a Aaaaaaaaaaa1
Field700Longer == [tag |-> <<55, 48, 48>>, body |-> <<49, 32>> \o Subfield(97, LongerName)]
\* 700 1# $a S. E. A. $e xxx...x
Field700Big == [tag |-> <<55, 48, 48>>,
                body |-> <<49, 32>> \o Subfield(97, LabelSEA)
                         \o Subfield(101, TupleOf([k \in 1..BigValueLength |-> 120]))]
\* 245 10 $a T
Field245 == [tag |-> <<50, 52, 53>>, body |-> <<49, 48>> \o Subfield(97, <<84>>)]
\* 710 2# $a E $0 old $a sa
Field710 == [tag |-> <<55, 49, 48>>,
             body |-> <<50, 32>> \o Subfield(97, <<69>>) \o Subfield(48, <<111, 108, 100>>)
                      \o Subfield(97, <<115, 97>>)]
\* 110 2# $e x: a name field without name subfields
Field110 == [tag |-> <<49, 49, 48>>, body |-> <<50, 32>> \o Subfield(101, <<120>>)]

RecordA == MarcBytes(<<Field001, Field700>>)
RecordB == MarcBytes(<<Field100, Field245, Field700Longer>>)
RecordC == MarcBytes(<<Field710, Field110>>)
BigRecord == MarcBytes(<<Field700Big>>)
\* a record without name fields, and a buffer of many of them
PlainRecord == MarcBytes(<<Field001, Field245>>)
LongBuffer == Concat(TupleOf([k \in 1..ManyRecords |-> PlainRecord]))
BaseRecords == {RecordA, RecordC}

\* whole records, one after the other (the empty buffer included)
WellFormedBuffers ==
  {Concat(rs) : rs \in SeqsUpTo(BaseRecords, MaxRecords)} \cup {RecordB, BigRecord, LongBuffer}

\* a whole record followed by the first k bytes of a record
TruncatedBuffers == {RecordA \o SubSeq(RecordA, 1, k) : k \in 1..(Len(RecordA) - 1)}

\* a record with one byte replaced
CorruptBytes == {0, 32, 45, 57, FIELD_TERMINATOR, SUBFIELD_DELIMITER, 255}
CorruptedBuffers ==
  {SubSeq(RecordA, 1, p - 1) \o <<b>> \o SubSeq(RecordA, p + 1, Len(RecordA)) :
     p \in 1..Len(RecordA), b \in CorruptBytes}

BinaryBuffers == WellFormedBuffers \cup TruncatedBuffers \cup CorruptedBuffers

\* ---- MARCXML documents ----
XmlLeader == <<48, 48, 48, 48, 48, 110, 97, 109, 32, 32, 50, 50, 48, 48, 48, 48, 48,
               32, 32, 32, 52, 53, 48, 48>>

XmlControl(tag, text) == [name |-> "controlfield", tag |-> tag, text |-> text]
XmlData(tag, ind1, ind2, subfields) ==
  [name |-> "datafield", tag |-> tag, ind1 |-> ind1, ind2 |-> ind2, subfields |-> subfields]
XmlSub(code, text) == [code |-> <<code>>, text |-> text]

\* a data field before its control field; ind2 absent
XmlRecordA ==
  [leader |-> Some(XmlLeader),
   children |-> << XmlData(<<55, 48, 48>>, Some(<<49>>), Null, <<XmlSub(97, LabelSEA)>>),
                   XmlControl(<<48, 48, 49>>, <<120, 49>>) >>]
\* no leader; a name field with a $0 and a repeated $a, and a title
XmlRecordB ==
  [leader |-> Null,
   children |-> << XmlData(<<49, 48, 48>>, Some(<<49>>), Some(<<32>>),
                           <<XmlSub(97, <<69>>), XmlSub(48, <<111, 108, 100>>),
                             XmlSub(97, <<115, 97>>)>>),
                   XmlData(<<50, 52, 53>>, Some(<<49>>), Some(<<48>>), <<XmlSub(97, <<84>>)>>) >>]
XmlBaseRecords == {XmlRecordA, XmlRecordB}

XmlDocuments ==
  {[parsererror |-> TRUE, records |-> <<>>]}
  \cup {[parsererror |-> FALSE, records |-> rs] : rs \in SeqsUpTo(XmlBaseRecords, MaxRecords)}

\* ---- files ----
NameXml == <<97>> \o ExtXml
NameXmlUpper == <<65, 46, 88, 77, 76>>
NameMrc == <<97>> \o ExtMrc
NameMarc == <<97>> \o ExtMarc
NameTxt == <<97, 46, 116, 120, 116>>

\* a file: its name and size, whether reading it succeeds, the bytes
\* arrayBuffer() resolves to, whether text() resolves to the empty string, and
\* the document DOMParser builds from that text
NoDocument == [parsererror |-> TRUE, records |-> <<>>]

BinaryFiles ==
  {[name |-> NameMrc, size |-> Len(b), readable |-> r, bytes |-> b, empty |-> Len(b) = 0,
    document |-> NoDocument] : r \in BOOLEAN, b \in BinaryBuffers}
  \cup {[name |-> NameMarc, size |-> Len(b), readable |-> TRUE, bytes |-> b,
         empty |-> Len(b) = 0, document |-> NoDocument] : b \in {<<>>, RecordA}}

OneRecordDocument == [parsererror |-> FALSE, records |-> <<XmlRecordA>>]

XmlFiles ==
  {[name |-> NameXml, size |-> 1024, readable |-> TRUE, bytes |-> <<>>, empty |-> FALSE,
    document |-> d] : d \in XmlDocuments}
  \cup {[name |-> n, size |-> s, readable |-> r, bytes |-> <<>>, empty |-> e, document |-> d] :
          n \in {NameXml, NameXmlUpper, NameTxt},
          s \in {1024, MaxXmlBytes, MaxXmlBytes + 1},
          r \in BOOLEAN, e \in BOOLEAN,
          d \in {NoDocument, OneRecordDocument}}

Files == BinaryFiles \cup XmlFiles

(***************************************************************************)
(* processMARCFile.  One action per stretch of code between two awaits.    *)
(***************************************************************************)
Event(stage, percent) == [stage |-> stage, percent |-> percent]

Init ==
  /\ fn = "idle" /\ args = <<>> /\ out = <<>>
  /\ file \in Files
  /\ pc = "start" /\ fileType = "" /\ parser = "none"
  /\ records = <<>> /\ doc = Null /\ report = Null /\ progress = <<>>
  /\ recIdx = 0 /\ fldIdx = 0 /\ trieMemo = <<>> /\ result = Null /\ error = Null
  /\ previous = Null

\* throw new Error(message)
Throw(message) == pc' = "failed" /\ error' = Some(message)

\* detectFileType, the first progress event, and the XML size check
Start ==
  /\ pc = "start"
  /\ fileType' = detectFileType(file)
  /\ IF fileType' = "binary"
     THEN /\ progress' = <<Event("reading", 0)>>
          /\ pc' = "arrayBuffer"
          /\ UNCHANGED error
     ELSE IF fileType' = "xml"
     THEN IF file.size > MaxXmlBytes
          THEN /\ progress' = <<Event("reading", 0)>>
               /\ Throw("XML file exceeds browser text string limits")
          ELSE /\ progress' = <<Event("reading", 0), Event("reading", 2)>>
               /\ pc' = "sleepBeforeText"
               /\ UNCHANGED error
     ELSE /\ progress' = <<Event("reading", 0)>>
          /\ Throw("Unsupported file type")
  /\ UNCHANGED <<fnVars, previous, file, parser, records, doc, report, recIdx, fldIdx, trieMemo, result>>

\* await file.arrayBuffer() settles
ArrayBufferSettled ==
  /\ pc = "arrayBuffer"
  /\ IF file.readable
     THEN /\ progress' = Append(progress, Event("parsing", 5))
          /\ pc' = "sleepBeforeBinaryParse"
          /\ UNCHANGED error
     ELSE /\ Throw("arrayBuffer rejected")
          /\ UNCHANGED progress
  /\ UNCHANGED <<fnVars, previous, file, fileType, parser, records, doc, report, recIdx, fldIdx,
                 trieMemo, result>>

\* new BinaryMARCParser(arrayBuffer).parse()
BinaryParse ==
  /\ pc = "sleepBeforeBinaryParse"
  /\ parser' = "BinaryMARCParser"
  /\ records' = parse(file.bytes)
  /\ progress' = progress \o <<Event("parsing", 15), Event("processing", 20)>>
  /\ pc' = "sleepBeforeProcessing"
  /\ UNCHANGED <<fnVars, previous, file, fileType, doc, report, recIdx, fldIdx, trieMemo, result, error>>

\* await sleep(1) before file.text()
ReadText ==
  /\ pc = "sleepBeforeText"
  /\ pc' = "text"
  /\ UNCHANGED <<fnVars, previous, file, fileType, parser, records, doc, report, progress, recIdx,
                 fldIdx, trieMemo, result, error>>

\* await file.text() settles
TextSettled ==
  /\ pc = "text"
  /\ IF ~file.readable
     THEN Throw("Failed to read file") /\ UNCHANGED progress
     ELSE IF file.empty
     THEN Throw("File could not be read (returned empty)") /\ UNCHANGED progress
     ELSE /\ progress' = Append(progress, Event("parsing", 5))
          /\ pc' = "sleepBeforeXmlParse"
          /\ UNCHANGED error
  /\ UNCHANGED <<fnVars, previous, file, fileType, parser, records, doc, report, recIdx, fldIdx,
                 trieMemo, result>>

\* new MARCXMLParser(text).parse()
XmlParseText ==
  /\ pc = "sleepBeforeXmlParse"
  /\ parser' = "MARCXMLParser"
  /\ LET parsed == XmlParse(file.document)
     IN  IF parsed = Null
         THEN /\ Throw("XML parsing error")
              /\ UNCHANGED <<records, doc, progress>>
         ELSE /\ records' = parsed[1]
              /\ doc' = Some(file.document)
              /\ progress' = progress \o <<Event("parsing", 15), Event("processing", 20)>>
              /\ pc' = "sleepBeforeProcessing"
              /\ UNCHANGED error
  /\ UNCHANGED <<fnVars, previous, file, fileType, report, recIdx, fldIdx, trieMemo, result>>

\* the report object, and entry to the record loop
BeginProcessing ==
  /\ pc = "sleepBeforeProcessing"
  /\ report' = Some([totalRecords |-> Len(records), totalFieldsProcessed |-> 0,
                     fieldsUpdated |-> 0, fieldsNotFound |-> 0, fieldsPoorMatch |-> 0,
                     details |-> <<>>])
  /\ recIdx' = 0
  /\ pc' = "record"
  /\ UNCHANGED <<fnVars, previous, file, fileType, parser, records, doc, progress, fldIdx, trieMemo,
                 result, error>>

\* a cadence that forgets the last record
ReportsEveryTenth(index, length) == index % 10 = 0

\* i % 10 === 0 || i === records.length - 1
ReportsProgress(index, length) == index % 10 = 0 \/ index = length - 1

\* head of one iteration of the record loop
RecordHead ==
  /\ pc = "record"
  /\ recIdx < Len(records)
  /\ IF ReportsProgress(recIdx, Len(records))
     THEN /\ progress' = Append(progress,
                           Event("processing", ProcessingPercent(recIdx, Len(records))))
          /\ pc' = "yield"
     ELSE /\ pc' = "fields"
          /\ UNCHANGED progress
  /\ fldIdx' = 1
  /\ UNCHANGED <<fnVars, previous, file, fileType, parser, records, doc, report, recIdx, trieMemo,
                 result, error>>

\* await sleep(0) returns
Resume ==
  /\ pc = "yield"
  /\ pc' = "fields"
  /\ UNCHANGED <<fnVars, previous, file, fileType, parser, records, doc, report, progress, recIdx,
                 fldIdx, trieMemo, result, error>>

\* a detail entry of the report
Detail(field, name, status, reason) ==
  [recordIndex |-> recIdx + 1, field |-> field.tag, name |-> name,
   status |-> status, reason |-> reason]

\* a threshold that also rejects the distance it names
AtOrOverThreshold(distance) == distance >= MAX_LEVENSHTEIN_DISTANCE

\* match.distance > MAX_LEVENSHTEIN_DISTANCE
ExceedsThreshold(distance) == distance > MAX_LEVENSHTEIN_DISTANCE

\* a filter that lets the title field 245 through as well
IsNameOrTitleTag(tag) == tag \in nameFieldTags \cup {<<50, 52, 53>>}

\* !nameFieldTags.includes(field.tag)
IsNameTag(tag) == tag \in nameFieldTags

\* the fields a name field must pass before trie.lookup is called
ReachesLookup(field) ==
  /\ IsNameTag(field.tag)
  /\ "subfields" \in DOMAIN field
  /\ extractNameFromSubfields(field.subfields) # <<>>

\* the body of `for (const field of record.fields)` for one field, given the
\* id trie.lookup returns: what is counted, reported and written
FieldOutcome(field, trieId) ==
  LET name == extractNameFromSubfields(field.subfields)
      lccnData == LookupGet(LookupData, trieId)
      match == findBestLCCNMatch(name, lccnData)
      uri == createLCCNUri(match[1].lccn)
  IN  IF ~IsNameTag(field.tag) \/ "subfields" \notin DOMAIN field
      THEN [step |-> "continue", counted |-> FALSE]
      ELSE IF name = <<>>
      THEN [step |-> "continue", counted |-> TRUE]
      ELSE IF trieId = -1
      THEN [step |-> "report", counter |-> "fieldsNotFound",
            detail |-> Detail(field, name, "not_found", "Name not found in LCNAF trie")]
      ELSE IF LccnDataMissing(lccnData)
      THEN [step |-> "report", counter |-> "fieldsNotFound",
            detail |-> Detail(field, name, "not_found",
                              "No LCCN data available for trie match")]
      ELSE IF match = Null
      THEN [step |-> "throw"]
      ELSE IF ExceedsThreshold(match[1].distance)
      THEN [step |-> "report", counter |-> "fieldsPoorMatch",
            detail |-> [recordIndex |-> recIdx + 1, field |-> field.tag, name |-> name,
                        status |-> "poor_match", reason |-> "Match quality too low",
                        matchedLabel |-> match[1].label,
                        levenshteinDistance |-> match[1].distance]]
      ELSE IF uri = Null
      THEN [step |-> "report", counter |-> "fieldsNotFound",
            detail |-> Detail(field, name, "error", "Failed to convert LCCN to URI")]
      ELSE [step |-> "update", counter |-> "fieldsUpdated", uri |-> uri[1],
            detail |-> [recordIndex |-> recIdx + 1, field |-> field.tag, name |-> name,
                        status |-> "updated", lccnUri |-> uri[1],
                        matchedLabel |-> match[1].label,
                        levenshteinDistance |-> match[1].distance]]

\* a report that pushes the detail and leaves the counter alone
ReportedUncounted(rep, counter, detail) ==
  [rep EXCEPT !.details = Append(@, detail)]

\* report.<counter>++ and report.details.push(detail)
Reported(rep, counter, detail) ==
  [rep EXCEPT ![counter] = @ + 1, !.details = Append(@, detail)]

\* a trie that may answer a key differently each time
TrieLookupForgetful(key, trieId) ==
  /\ trieId \in TrieIds
  /\ trieMemo' = [k \in DOMAIN trieMemo \cup {key} |-> IF k = key THEN trieId ELSE trieMemo[k]]

\* trie.lookup(key): the trie is a function of the key, so a key asked again
\* gets the answer it got before
TrieLookup(key, trieId) ==
  /\ trieId \in TrieIds
  /\ key \in DOMAIN trieMemo => trieId = trieMemo[key]
  /\ trieMemo' = [k \in DOMAIN trieMemo \cup {key} |-> IF k = key THEN trieId ELSE trieMemo[k]]

\* a field loop that hands control back after every field
FieldLoopYields == pc' = "yield"

\* the body of the field loop holds no await: after a field, control is still
\* in the loop
FieldLoopContinues == pc' = pc

\* one iteration of `for (const field of record.fields)`
ProcessField ==
  /\ pc = "fields"
  /\ fldIdx <= Len(records[recIdx + 1].fields)
  /\ LET field == records[recIdx + 1].fields[fldIdx]
     IN  \E trieId \in TrieIds :
           /\ IF ReachesLookup(field)
              THEN TrieLookup(normalizeString(extractNameFromSubfields(field.subfields)), trieId)
              ELSE trieId = -1 /\ UNCHANGED trieMemo
           /\ LET o == FieldOutcome(field, trieId)
                  counted == [report[1] EXCEPT !.totalFieldsProcessed = @ + 1]
              IN  CASE o.step = "continue" ->
                         /\ report' = IF o.counted THEN Some(counted) ELSE report
                         /\ fldIdx' = fldIdx + 1
                         /\ FieldLoopContinues /\ UNCHANGED <<records, doc, error>>
                    [] o.step = "report" ->
                         /\ report' = Some(Reported(counted, o.counter, o.detail))
                         /\ fldIdx' = fldIdx + 1
                         /\ FieldLoopContinues /\ UNCHANGED <<records, doc, error>>
                    [] o.step = "throw" ->
                         /\ report' = Some(counted)
                         /\ Throw("TypeError")
                         /\ UNCHANGED <<fldIdx, records, doc>>
                    [] o.step = "update" ->
                         /\ records' = [records EXCEPT ![recIdx + 1].fields[fldIdx] =
                                          updateSubfieldZeroField(field, o.uri)]
                         /\ doc' = IF fileType = "xml"
                                   THEN Some(updateSubfieldZeroDom(doc[1], recIdx + 1, field, o.uri))
                                   ELSE doc
                         /\ report' = Some(Reported(counted, o.counter, o.detail))
                         /\ fldIdx' = fldIdx + 1
                         /\ FieldLoopContinues /\ UNCHANGED error
  /\ UNCHANGED <<fnVars, previous, file, fileType, parser, progress, recIdx, result>>

\* the field loop is exhausted: i++
EndRecord ==
  /\ pc = "fields"
  /\ fldIdx > Len(records[recIdx + 1].fields)
  /\ recIdx' = recIdx + 1
  /\ pc' = "record"
  /\ UNCHANGED <<fnVars, previous, file, fileType, parser, records, doc, report, progress, fldIdx,
                 trieMemo, result, error>>

\* parser.serialize(): Null stands for the TypeError of records[0] on no records;
\* the blob holds the serialization of the live document
serialize == IF records = <<>> THEN Null ELSE Some(doc[1])

\* after the record loop: finalizing, output generation, complete
Finalize ==
  /\ pc = "record"
  /\ ~(recIdx < Len(records))
  /\ LET data == IF fileType = "xml" THEN serialize ELSE exportBinary(records)
         outputFilename == IF fileType = "xml" THEN XmlOutputFilename(file.name)
                           ELSE BinaryOutputFilename(file.name)
     IN  IF data = Null
         THEN /\ progress' = Append(progress, Event("finalizing", 95))
              /\ Throw(IF fileType = "xml" THEN "TypeError" ELSE "RangeError")
              /\ UNCHANGED result
         ELSE /\ progress' = progress \o <<Event("finalizing", 95), Event("complete", 100)>>
              /\ result' = Some([outputBlob |-> [type |-> IF fileType = "xml"
                                                          THEN "application/xml"
                                                          ELSE "application/marc",
                                                 data |-> data[1]],
                                 outputFilename |-> outputFilename,
                                 report |-> report[1]])
              /\ pc' = "done"
              /\ UNCHANGED error
  /\ UNCHANGED <<fnVars, previous, file, fileType, parser, records, doc, report, recIdx, fldIdx,
                 trieMemo>>

Next ==
  \/ Start
  \/ ArrayBufferSettled
  \/ BinaryParse
  \/ ReadText
  \/ TextSettled
  \/ XmlParseText
  \/ BeginProcessing
  \/ RecordHead
  \/ Resume
  \/ ProcessField
  \/ EndRecord
  \/ Finalize

Spec == Init /\ [][Next]_vars

\* processMARCFile is called again with the same file, trie and lookup table
RunAgain ==
  /\ pc \in {"done", "failed"}
  /\ previous = Null
  /\ previous' = Some([result |-> result, error |-> error])
  /\ pc' = "start" /\ fileType' = "" /\ parser' = "none"
  /\ records' = <<>> /\ doc' = Null /\ report' = Null /\ progress' = <<>>
  /\ recIdx' = 0 /\ fldIdx' = 0 /\ result' = Null /\ error' = Null
  /\ UNCHANGED <<fnVars, file, trieMemo>>

NextTwice ==
  \/ Next
  \/ RunAgain

SpecTwice == Init /\ [][NextTwice]_vars

(***************************************************************************)
(* The same records in both serializations: a binary file whose records    *)
(* are also held as a MARCXML document, processed first as binary and then *)
(* as XML against the same trie.                                            *)
(***************************************************************************)
XmlOfField001 == XmlControl(<<48, 48, 49>>, <<120, 49>>)
XmlOfField700 == XmlData(<<55, 48, 48>>, Some(<<49>>), Some(<<32>>), <<XmlSub(97, LabelSEA)>>)
XmlOfField100 == XmlData(<<49, 48, 48>>, Some(<<49>>), Some(<<32>>), <<XmlSub(97, LongName)>>)
XmlOfField700Longer ==
  XmlData(<<55, 48, 48>>, Some(<<49>>), Some(<<32>>), <<XmlSub(97, LongerName)>>)
XmlOfField700Big ==
  XmlData(<<55, 48, 48>>, Some(<<49>>), Some(<<32>>),
          <<XmlSub(97, LabelSEA), XmlSub(101, TupleOf([k \in 1..BigValueLength |-> 120]))>>)
XmlOfField245 == XmlData(<<50, 52, 53>>, Some(<<49>>), Some(<<48>>), <<XmlSub(97, <<84>>)>>)
XmlOfField710 ==
  XmlData(<<55, 49, 48>>, Some(<<50>>), Some(<<32>>),
          <<XmlSub(97, <<69>>), XmlSub(48, <<111, 108, 100>>), XmlSub(97, <<115, 97>>)>>)
XmlOfField110 == XmlData(<<49, 49, 48>>, Some(<<50>>), Some(<<32>>), <<XmlSub(101, <<120>>)>>)

\* the record element that holds the fields of a binary record, in its order
XmlOfRecord(rec) ==
  [leader |-> Some(SubSeq(rec, 1, 24)),
   children |-> CASE rec = RecordA -> <<XmlOfField001, XmlOfField700>>
                  [] rec = RecordB -> <<XmlOfField100, XmlOfField245, XmlOfField700Longer>>
                  [] rec = RecordC -> <<XmlOfField710, XmlOfField110>>
                  [] rec = BigRecord -> <<XmlOfField700Big>>
                  [] rec = PlainRecord -> <<XmlOfField001, XmlOfField245>>]

\* sequences of records, the empty one included
RecordSequences ==
  SeqsUpTo(BaseRecords, MaxRecords)
  \cup {<<RecordB>>, <<BigRecord>>, <<RecordB, PlainRecord, RecordA>>}

\* a file that holds a sequence of records as ISO 2709 bytes and as the
\* document of the MARCXML text for the same records
PairedFiles ==
  {[name |-> NameMrc, size |-> Len(Concat(rs)), readable |-> TRUE, bytes |-> Concat(rs),
    empty |-> FALSE,
    document |-> [parsererror |-> FALSE,
                  records |-> TupleOf([k \in 1..Len(rs) |-> XmlOfRecord(rs[k])])]] :
     rs \in RecordSequences}

InitFormats ==
  /\ fn = "idle" /\ args = <<>> /\ out = <<>>
  /\ file \in PairedFiles
  /\ pc = "start" /\ fileType = "" /\ parser = "none"
  /\ records = <<>> /\ doc = Null /\ report = Null /\ progress = <<>>
  /\ recIdx = 0 /\ fldIdx = 0 /\ trieMemo = <<>> /\ result = Null /\ error = Null
  /\ previous = Null

\* processMARCFile is called again, with the MARCXML file of the same records
\* and the same trie and lookup table
RunAsXml ==
  /\ pc \in {"done", "failed"}
  /\ previous = Null
  /\ previous' = Some([result |-> result, error |-> error, records |-> records])
  /\ file' = [file EXCEPT !.name = NameXml, !.size = 1024]
  /\ pc' = "start" /\ fileType' = "" /\ parser' = "none"
  /\ records' = <<>> /\ doc' = Null /\ report' = Null /\ progress' = <<>>
  /\ recIdx' = 0 /\ fldIdx' = 0 /\ result' = Null /\ error' = Null
  /\ UNCHANGED <<fnVars, trieMemo>>

NextFormats ==
  \/ Next
  \/ RunAsXml

SpecFormats == InitFormats /\ [][NextFormats]_vars

(***************************************************************************)
(* Claims                                                                  *)
(***************************************************************************)

\* C1: normalizeString gives the same key for a string and for every
\* rearrangement of its characters, with whitespace added, removed or moved.
C1_OrderInsensitive ==
  fn = "normalizeString" =>
    (IsRearrangement(args[2], args[1]) => out[2] = out[1])

C1_Witness ==
  /\ fn = "normalizeString"
  /\ args[1] # args[2]
  /\ IsRearrangement(args[2], args[1])
  /\ Len(args[1]) # Len(args[2])
  /\ Len(out[1]) >= 2
  /\ \E i \in 1..Len(args[1]) : args[1][i] \in LowerLetters \cup UpperLetters
  /\ \E i \in 1..Len(args[1]) : args[1][i] \in Digits

\* "afiilnoorvw18821941"
ReadmeKey == <<97, 102, 105, 105, 108, 110, 111, 111, 114, 118, 119, 49, 56,
               56, 50, 49, 57, 52, 49>>
\* "afgiiilnoorvw11124889"
SortedKey == <<97, 102, 103, 105, 105, 105, 108, 110, 111, 111, 114, 118,
               119, 49, 49, 49, 50, 52, 56, 56, 57>>

NumDigits(n) == Min({k \in 1..9 : n < Pow10(k)})
LeadingDigit(n) == n \div Pow10(NumDigits(n) - 1)
TrailingDigits(n) ==
  LET w == NumDigits(n) - 1
      r == n % Pow10(w)
  IN  TupleOf([i \in 1..w |-> 48 + ((r \div Pow10(w - i)) % 10)])

ExpectedPrefix(d) ==
  CASE d = 1 -> <<110, 98>>       \* nb
    [] d = 2 -> <<110, 110>>      \* nn
    [] d = 3 -> <<110, 111>>      \* no
    [] d = 4 -> <<110, 114>>      \* nr
    [] d = 5 -> <<110, 115>>      \* ns
    [] d = 6 -> <<110>>           \* n

\* C3: createLCCNUri maps the first decimal digit 1..6 to nb, nn, no, nr,
\* ns, n, appends the remaining digits verbatim after the fixed URI base,
\* and returns no URI when the first digit is 0, 7, 8 or 9.
C3_PrefixMapping ==
  fn = "createLCCNUri" =>
    LET n == args[1]
        d == LeadingDigit(n)
    IN  /\ d \in 1..6 => out[1] = Some(UriBase \o ExpectedPrefix(d) \o TrailingDigits(n))
        /\ d \in {0, 7, 8, 9} => out[1] = Null
        /\ n = 179041849 =>
             out[1] = Some(UriBase \o <<110, 98, 55, 57, 48, 52, 49, 56, 52, 57>>)
        /\ n = 279041849 =>
             out[1] = Some(UriBase \o <<110, 110, 55, 57, 48, 52, 49, 56, 52, 57>>)

C3_Witness ==
  /\ fn = "createLCCNUri"
  /\ args[1] = 679041849
  /\ out[1] = Some(UriBase \o <<110, 55, 57, 48, 52, 49, 56, 52, 57>>)

\* C4: findBestLCCNMatch on a non-empty candidate list returns the first
\* candidate, in list order, whose normalised label has the minimum
\* Levenshtein distance to the normalised original name.
CandidateDistance(name, item) == levenshteinDistance(ScoreKey(name), ScoreKey(item.label))

FirstMinimum(name, items) ==
  Min({k \in 1..Len(items) :
         \A j \in 1..Len(items) :
            CandidateDistance(name, items[k]) <= CandidateDistance(name, items[j])})

C4_FirstMinimumWins ==
  (fn = "findBestLCCNMatch" /\ args[2].items # <<>>) =>
    LET name == args[1]
        items == args[2].items
        k == FirstMinimum(name, items)
    IN  /\ out[1] = Some([lccn |-> items[k].lccn, label |-> Some(items[k].label),
                          distance |-> CandidateDistance(name, items[k])])
        /\ (name = LabelSEA /\ items = <<[lccn |-> 179041849, label |-> LabelSEA],
                                         [lccn |-> 279041849, label |-> LabelEsa],
                                         [lccn |-> 379041849, label |-> LabelEAS]>>)
             => (out[1][1].lccn = 179041849 /\ out[1][1].distance = 0)

C4_Witness ==
  /\ fn = "findBestLCCNMatch"
  /\ args[1] = LabelSEA
  /\ args[2].items = <<[lccn |-> 179041849, label |-> LabelEsa],
                       [lccn |-> 279041849, label |-> LabelEAS],
                       [lccn |-> 379041849, label |-> LabelEAS]>>
  /\ out[1][1].lccn = 179041849
  /\ out[1][1].distance = 2

(***************************************************************************)
(* Claims about processMARCFile                                            *)
(***************************************************************************)
\* the field the next iteration of the field loop handles
CurrentField == records[recIdx + 1].fields[fldIdx]
AtField == pc = "fields" /\ fldIdx <= Len(records[recIdx + 1].fields)

\* the candidates the trie and the lookup table give for a name, after the step
\* that asked for them
CandidatesOf(name) == LookupGet(LookupData, trieMemo'[normalizeString(name)])

HasCandidates(lccnData) ==
  \/ lccnData.kind = "number" /\ lccnData.lccn # 0
  \/ lccnData.kind = "list" /\ lccnData.items # <<>>

\* the least edit distance between the name and the candidates' labels
LeastDistance(name, lccnData) ==
  IF lccnData.kind = "number" THEN 0
  ELSE Min({levenshteinDistance(ScoreKey(name), ScoreKey(lccnData.items[k].label)) :
              k \in 1..Len(lccnData.items)})

LastDetail(rep) == rep[1].details[Len(rep[1].details)]

ZeroSubfieldIs(field, uri) ==
  HasProp(field.subfields, <<48>>) /\ GetProp(field.subfields, <<48>>).values = <<uri>>

C5_Step ==
  (AtField /\ ReachesLookup(CurrentField)) =>
    LET name == extractNameFromSubfields(CurrentField.subfields)
        lccnData == CandidatesOf(name)
        d == LeastDistance(name, lccnData)
        entry == LastDetail(report')
    IN  (trieMemo'[normalizeString(name)] # -1 /\ HasCandidates(lccnData)) =>
          /\ Len(report'[1].details) = Len(report[1].details) + 1
          /\ IF d >= 11
             THEN /\ entry.status = "poor_match"
                  /\ entry.levenshteinDistance = d
                  /\ report'[1].fieldsPoorMatch = report[1].fieldsPoorMatch + 1
                  /\ report'[1].fieldsUpdated = report[1].fieldsUpdated
                  /\ records' = records /\ doc' = doc
             ELSE /\ entry.status \in {"updated", "error"}
                  /\ report'[1].fieldsPoorMatch = report[1].fieldsPoorMatch
                  /\ createLCCNUri(findBestLCCNMatch(name, lccnData)[1].lccn) # Null
                       => entry.status = "updated"
                  /\ entry.status = "updated" =>
                       /\ entry.levenshteinDistance = d
                       /\ report'[1].fieldsUpdated = report[1].fieldsUpdated + 1
                       /\ ZeroSubfieldIs(records'[recIdx + 1].fields[fldIdx], entry.lccnUri)

\* C5: a field whose best candidate is at edit distance 11 or more gets a
\* poor_match entry, counts as a poor match and is left as it was; at distance
\* 10 or less it is never a poor match and goes on to the update, which writes
\* $0 whenever the chosen identifier converts to a URI.
C5_Threshold == [][C5_Step]_vars

\* one run with a distance of exactly 10 updated and a distance of 11 refused
C5_Witness ==
  /\ report # Null
  /\ \E a, b \in 1..Len(report[1].details) :
       /\ report[1].details[a].status = "updated"
       /\ report[1].details[a].levenshteinDistance = 10
       /\ report[1].details[b].status = "poor_match"
       /\ report[1].details[b].levenshteinDistance = 11

\* '100', '110', '700', '710'
ReconciledTags == {<<49, 48, 48>>, <<49, 49, 48>>, <<55, 48, 48>>, <<55, 49, 48>>}

\* the subfields of a field other than $0
OtherSubfields(field) == SelectSeq(field.subfields, LAMBDA prop : prop.code # <<48>>)

\* records' is records but for the $0 of the current field
OnlyZeroOfCurrentFieldChanged ==
  /\ Len(records') = Len(records)
  /\ \A r \in 1..Len(records) :
       /\ Len(records'[r].fields) = Len(records[r].fields)
       /\ [records'[r] EXCEPT !.fields = <<>>] = [records[r] EXCEPT !.fields = <<>>]
       /\ \A k \in 1..Len(records[r].fields) :
            IF r = recIdx + 1 /\ k = fldIdx
            THEN /\ [records'[r].fields[k] EXCEPT !.subfields = <<>>]
                      = [records[r].fields[k] EXCEPT !.subfields = <<>>]
                 /\ OtherSubfields(records'[r].fields[k]) = OtherSubfields(records[r].fields[k])
            ELSE records'[r].fields[k] = records[r].fields[k]

C6_Step ==
  report # Null =>
    LET added == Len(report'[1].details) - Len(report[1].details)
        entry == LastDetail(report')
    IN  /\ added \in {0, 1}
        /\ SubSeq(report'[1].details, 1, Len(report[1].details)) = report[1].details
        /\ (records' # records \/ doc' # doc) =>
             /\ AtField
             /\ added = 1
             /\ entry.status = "updated"
             /\ entry.recordIndex = recIdx + 1
             /\ entry.field = CurrentField.tag
             /\ OnlyZeroOfCurrentFieldChanged
        /\ (added = 1 /\ entry.status \in {"not_found", "poor_match", "error"}) =>
             records' = records /\ doc' = doc
        /\ (AtField /\ (CurrentField.tag \notin ReconciledTags
                        \/ "subfields" \notin DOMAIN CurrentField)) =>
             /\ report' = report
             /\ records' = records /\ doc' = doc
        /\ AtField =>
             (added = 1 <=>
                /\ ReachesLookup(CurrentField)
                /\ LET name == extractNameFromSubfields(CurrentField.subfields)
                   IN  \/ trieMemo'[normalizeString(name)] = -1
                       \/ CandidatesOf(name).kind # "list"
                       \/ CandidatesOf(name).items # <<>>)

\* C6: a step of the pipeline changes a field only by writing the $0 of the
\* field it is handling, and only together with an 'updated' entry for that
\* record and tag; a not_found, poor_match or error entry is appended alone
\* and with no field changed; every looked-up field with an answer gets
\* exactly one entry; a field whose tag is not 100, 110, 700 or 710, or a
\* control field, is neither changed nor reported.
C6_MutationOnlyOnMatch == [][C6_Step]_vars

\* a finished run that updated a name field, refused another and passed over
\* a title field of the same record
C6_Witness ==
  /\ pc = "done"
  /\ \E r \in 1..Len(records) :
       /\ \E k \in 1..Len(records[r].fields) : records[r].fields[k].tag = <<50, 52, 53>>
       /\ \E a, b \in 1..Len(report[1].details) :
            /\ report[1].details[a].recordIndex = r
            /\ report[1].details[a].status = "updated"
            /\ report[1].details[b].recordIndex = r
            /\ report[1].details[b].status \in {"not_found", "poor_match", "error"}

\* what the round trip compares of one field
FieldContent(field) ==
  IF "subfields" \in DOMAIN field
  THEN [tag |-> field.tag, ind1 |-> field.ind1, ind2 |-> field.ind2,
        subfields |-> Range(field.subfields)]
  ELSE [tag |-> field.tag, data |-> field.data]

SameContent(a, b) ==
  /\ Len(a) = Len(b)
  /\ \A r \in 1..Len(a) :
       /\ Len(a[r].fields) = Len(b[r].fields)
       /\ \A k \in 1..Len(a[r].fields) : FieldContent(a[r].fields[k]) = FieldContent(b[r].fields[k])

\* C7: the records parse() produced from the input come back from
\* parse(exportBinary()) in the same number and order, with the same tags,
\* indicators, control-field data and subfield values.
C7_RoundTrip ==
  (parser = "BinaryMARCParser" /\ pc = "sleepBeforeProcessing") =>
    LET exported == exportBinary(records)
    IN  exported # Null /\ SameContent(parse(exported[1]), records)

\* the leader and the directory of bytes b agree with the serialized fields
RecordConsistent(record, b) ==
  LET n == Len(record.fields)
      parts == TupleOf([k \in 1..n |-> FieldBytes(record.fields[k])])
      directoryLength == n * 12 + 1
      baseAddress == 24 + directoryLength
  IN  /\ SubSeq(b, 13, 17) = Pad(baseAddress, 5)
      /\ SubSeq(b, 1, 5) = Pad(baseAddress + SumLengths(parts) + 1, 5)
      /\ Len(b) = baseAddress + SumLengths(parts) + 1
      /\ \A k \in 1..n :
           LET at == 24 + 12 * (k - 1)
           IN  /\ SubSeq(b, at + 4, at + 7) = Pad(Len(parts[k]), 4)
               /\ SubSeq(b, at + 8, at + 12) = Pad(SumLengths(SubSeq(parts, 1, k - 1)), 5)

\* C8: in every record of a finished binary run, updated or not, the leader's
\* base address is 24 + the directory length, its record length is the base
\* address + the field bytes + 1 and the number of bytes emitted, and every
\* directory entry carries its field's serialized length and the sum of the
\* lengths before it.
C8_Consistent ==
  (pc = "done" /\ fileType = "binary") =>
    \A r \in 1..Len(records) : RecordConsistent(records[r], rebuildRecord(records[r])[1])

\* C9: a readable binary file holding one whole record and then the first
\* bytes of a record is processed without an error and reported as one record.
C9_Resilient ==
  (fileType = "binary" /\ file.readable /\ file.bytes \in TruncatedBuffers) =>
    /\ pc # "failed"
    /\ report # Null => report[1].totalRecords = 1

\* the name ends in none of .xml, .mrc, .marc, in either case
UnknownExtension(name) ==
  /\ ~endsWith(toLowerCase(name), ExtXml)
  /\ ~endsWith(toLowerCase(name), ExtMrc)
  /\ ~endsWith(toLowerCase(name), ExtMarc)

\* C10: a file with an unknown extension fails at once with the unsupported
\* file type error, and no parser is constructed for it.
C10_Rejected ==
  UnknownExtension(file.name) =>
    /\ parser = "none"
    /\ pc # "start" => (pc = "failed" /\ error = Some("Unsupported file type"))

\* the errors of a whole document: format, size ceiling, XML parse, file read
DocumentErrors ==
  {"Unsupported file type", "XML file exceeds browser text string limits",
   "XML parsing error", "Failed to read file", "File could not be read (returned empty)",
   "arrayBuffer rejected"}

\* C11: whatever the trie and the lookup table answer, processMARCFile fails
\* only with an unsupported format, an oversized XML file, an XML parse
\* failure or a file read error; a field never makes it throw.
C11_FailureIsolation ==
  pc = "failed" => error[1] \in DocumentErrors

\* the id the trie gave for the field being handled, after the step
AnsweredId == trieMemo'[normalizeString(extractNameFromSubfields(CurrentField.subfields))]

\* the lookup table has nothing for the id: past its end, or a null entry
NoDataFor(id) == id >= Len(LookupData) \/ (id >= 0 /\ LookupData[id + 1].kind = "null")

C12_Step ==
  (AtField /\ ReachesLookup(CurrentField) /\ AnsweredId # -1 /\ NoDataFor(AnsweredId)) =>
    /\ Len(report'[1].details) = Len(report[1].details) + 1
    /\ LastDetail(report').status = "not_found"
    /\ LastDetail(report').reason = "No LCCN data available for trie match"
    /\ LastDetail(report').recordIndex = recIdx + 1
    /\ LastDetail(report').field = CurrentField.tag
    /\ report'[1].fieldsNotFound = report[1].fieldsNotFound + 1
    /\ report'[1].fieldsUpdated = report[1].fieldsUpdated
    /\ records' = records /\ doc' = doc
    /\ pc' = "fields" /\ fldIdx' = fldIdx + 1 /\ recIdx' = recIdx /\ error' = Null

\* C12: when the trie gives an id for which the lookup table has no data,
\* the field gets exactly one not_found entry with its reason, nothing is
\* changed, and the field loop goes on with the next field.
C12_LookupUnavailable == [][C12_Step]_vars

\* a finished run in which a field without lookup data is followed by an
\* updated field of a later record
C12_Witness ==
  /\ pc = "done"
  /\ \E a, b \in 1..Len(report[1].details) :
       /\ a < b
       /\ report[1].details[a].status = "not_found"
       /\ report[1].details[a].reason = "No LCCN data available for trie match"
       /\ report[1].details[b].recordIndex > report[1].details[a].recordIndex
       /\ report[1].details[b].status = "updated"

\* the candidate the resolver picks for the field being handled
Winner ==
  findBestLCCNMatch(extractNameFromSubfields(CurrentField.subfields),
                    LookupGet(LookupData, AnsweredId))[1]

C13_Step ==
  (/\ AtField /\ ReachesLookup(CurrentField) /\ AnsweredId # -1
   /\ HasCandidates(LookupGet(LookupData, AnsweredId))
   /\ LeadingDigit(Winner.lccn) \notin 1..6) =>
    /\ Len(report'[1].details) = Len(report[1].details) + 1
    /\ LastDetail(report').status = "error"
    /\ records' = records /\ doc' = doc

\* C13: a winning identifier whose first digit is not one of 1..6 gives the
\* field an 'error' entry and no change, whatever the winner's edit distance,
\* above 10 included.
C13_InvalidIdentifier == [][C13_Step]_vars

StageRank(stage) ==
  CASE stage = "reading" -> 1
    [] stage = "parsing" -> 2
    [] stage = "processing" -> 3
    [] stage = "finalizing" -> 4
    [] stage = "complete" -> 5

CountStage(stage) == Len(SelectSeq(progress, LAMBDA e : e.stage = stage))

\* the records whose loop head has been passed
RecordsEntered ==
  IF recIdx < Len(records) /\ pc \in {"yield", "fields", "failed"} THEN recIdx + 1 ELSE recIdx

\* C14: the progress events run through reading, parsing, processing,
\* finalizing, complete without going back; percents never decrease; once
\* the record loop runs there is one processing event for every record index
\* that is a multiple of 10 and for the last record; 'complete' comes once,
\* at 100, exactly when the run returns.
C14_Progress ==
  /\ \A a, b \in 1..Len(progress) :
       a < b => /\ StageRank(progress[a].stage) <= StageRank(progress[b].stage)
                /\ progress[a].percent <= progress[b].percent
  /\ report # Null =>
       CountStage("processing") =
         1 + Cardinality({k \in 0..(RecordsEntered - 1) :
                            k % 10 = 0 \/ k = Len(records) - 1})
  /\ CountStage("complete") = (IF pc = "done" THEN 1 ELSE 0)
  /\ \A a \in 1..Len(progress) :
       progress[a].stage = "complete" => (a = Len(progress) /\ progress[a].percent = 100)

\* a finished run over more than ten records
C14_Witness ==
  /\ pc = "done"
  /\ Len(records) > 11
  /\ CountStage("processing") = 4

ValuesOfCode(pairs, code) ==
  LET hits == SelectSeq(pairs, LAMBDA pr : pr[1] = <<code>>)
  IN  TupleOf([k \in 1..Len(hits) |-> hits[k][2]])

\* a, b, c, q, d, g: every occurrence of each, code by code
RECURSIVE ContributionsFrom(_, _)
ContributionsFrom(pairs, k) ==
  IF k > 6 THEN <<>>
  ELSE ValuesOfCode(pairs, <<97, 98, 99, 113, 100, 103>>[k]) \o ContributionsFrom(pairs, k + 1)

\* C16: the name is the values of the subfields a, b, c, q, d, g in that
\* order, one per occurrence, joined by one space and trimmed; other codes
\* contribute nothing.
C16_NameExtraction ==
  fn = "extractNameFromSubfields" =>
    out[1] = trim(Join(ContributionsFrom(args[1], 1), <<32>>))

\* the run stopped without reaching the record loop: no event of the later
\* stages, no report object, nothing returned
AbortedBeforeProcessing ==
  /\ pc = "failed"
  /\ \A k \in 1..Len(progress) : progress[k].stage \in {"reading", "parsing"}
  /\ report = Null
  /\ result = Null

\* C17: an XML file above the 500 MB ceiling is rejected right after the first
\* progress event, before file.text() is awaited; an XML text with a parse
\* error is rejected by MARCXMLParser.parse; neither run emits a processing,
\* finalizing or complete event, builds a report or returns an output.
C17_DocumentFailuresAbort ==
  /\ (fileType = "xml" /\ file.size > MaxXmlBytes) =>
       /\ AbortedBeforeProcessing
       /\ error = Some("XML file exceeds browser text string limits")
       /\ progress = <<Event("reading", 0)>>
       /\ parser = "none"
  /\ (parser = "MARCXMLParser" /\ file.document.parsererror) =>
       /\ AbortedBeforeProcessing
       /\ error = Some("XML parsing error")
       /\ records = <<>> /\ doc = Null

\* a readable, non-empty XML text of allowed size that fails to parse
C17_Witness ==
  /\ parser = "MARCXMLParser"
  /\ file.document.parsererror
  /\ file.size <= MaxXmlBytes
  /\ pc = "failed"
  /\ Len(progress) = 3

\* '_enhanced'
EnhancedSuffix == <<95, 101, 110, 104, 97, 110, 99, 101, 100>>

\* the position of the last '.' of a name, 0 when it has none
LastDot(name) ==
  LET Dots == {k \in 1..Len(name) : name[k] = 46}
  IN  IF Dots = {} THEN 0 ELSE Max(Dots)

\* name with '_enhanced' put before its extension; the extension of a binary
\* file becomes '.mrc'
SuffixedName(name, type) ==
  LET dot == LastDot(name)
      stem == IF dot = 0 THEN name ELSE SubSeq(name, 1, dot - 1)
      extension == IF dot = 0 THEN <<>> ELSE SubSeq(name, dot, Len(name))
  IN  stem \o EnhancedSuffix \o (IF type = "binary" THEN ExtMrc ELSE extension)

\* C19: every run that returns names its output after the input, with
\* '_enhanced' before the extension (.xml kept, .mrc and .marc giving .mrc),
\* so the output name is never the input name.
C19_OutputName ==
  result # Null =>
    /\ result[1].outputFilename = SuffixedName(file.name, fileType)
    /\ result[1].outputFilename # file.name

\* the states in which processMARCFile is suspended in an await
Suspended ==
  pc \in {"arrayBuffer", "sleepBeforeBinaryParse", "sleepBeforeText", "text",
          "sleepBeforeXmlParse", "sleepBeforeProcessing", "yield"}

\* the records as the parser delivered them, before any field was handled
ParsedRecords ==
  IF fileType = "xml" THEN XmlParse(file.document)[1] ELSE parse(file.bytes)

\* the number of fields of the first n records that the field loop counts
EligibleFields(n) ==
  Cardinality({<<r, k>> \in (1..n) \X (1..Max({0} \cup {Len(records[r].fields) : r \in 1..n})) :
                 /\ k <= Len(records[r].fields)
                 /\ IsNameTag(records[r].fields[k].tag)
                 /\ "subfields" \in DOMAIN records[r].fields[k]})

\* C20: processMARCFile awaits only between records.  Wherever it is
\* suspended, every record before the loop index is processed to its last
\* field, every record from the loop index on is as the parser delivered it,
\* and the report has no entry of a record that is not finished.
C20_RecordAtomicity ==
  /\ (Suspended /\ pc # "yield") => report = Null
  /\ pc = "yield" =>
       /\ fldIdx = 1
       /\ report[1].totalFieldsProcessed = EligibleFields(recIdx)
       /\ \A d \in 1..Len(report[1].details) : report[1].details[d].recordIndex <= recIdx
       /\ \A r \in (recIdx + 1)..Len(records) : records[r] = ParsedRecords[r]
       /\ fileType = "xml" => \A r \in (recIdx + 1)..Len(records) :
                                doc[1].records[r] = file.document.records[r]

\* suspended at the head of a later record, an earlier one having been
\* given a $0
C20_Witness ==
  /\ pc = "yield"
  /\ recIdx >= 1
  /\ \E d \in 1..Len(report[1].details) : report[1].details[d].status = "updated"
  /\ records # ParsedRecords

\* the data fields of a record, in order
DataFieldsOf(record) == SelectSeq(record.fields, LAMBDA f : "subfields" \in DOMAIN f)

\* for every record, the tag and the $0 of each data field
ZeroSubfields(recs) ==
  [r \in 1..Len(recs) |->
     LET d == DataFieldsOf(recs[r])
     IN  [k \in 1..Len(d) |->
            <<d[k].tag,
              IF HasProp(d[k].subfields, <<48>>) THEN Some(GetProp(d[k].subfields, <<48>>))
              ELSE Null>>]]

\* both runs over the same records are over
BothFormatsRun == previous # Null /\ fileType = "xml" /\ pc \in {"done", "failed"}

\* C18: the same records processed as binary MARC and as MARCXML against the
\* same trie give the same report (counters and details in order), and the
\* same data fields end with the same $0.
C18_FormatEquivalence ==
  BothFormatsRun =>
    /\ (result # Null) = (previous[1].result # Null)
    /\ result # Null =>
         /\ result[1].report = previous[1].result[1].report
         /\ ZeroSubfields(records) = ZeroSubfields(previous[1].records)

\* the report of a run over no records
EmptyReport ==
  [totalRecords |-> 0, totalFieldsProcessed |-> 0, fieldsUpdated |-> 0,
   fieldsNotFound |-> 0, fieldsPoorMatch |-> 0, details |-> <<>>]

\* C30: a run whose input decodes to zero records, in either format, does not
\* fail: it goes on to the 'complete' event and returns the report with
\* totalRecords 0, all counters 0 and no details.
C30_ZeroRecords ==
  (report # Null /\ records = <<>>) =>
    /\ pc # "failed"
    /\ report[1] = EmptyReport
    /\ pc = "done" =>
         /\ result[1].report = EmptyReport
         /\ progress[Len(progress)] = Event("complete", 100)

\* how many fields of record r (1-based) the field loop has gone through
ProcessedFields(r) ==
  IF r <= recIdx THEN Len(records[r].fields)
  ELSE IF r = recIdx + 1 /\ pc \in {"fields", "failed"} THEN fldIdx - 1
  ELSE 0

\* the tags of the details written for record r, in report order
DetailTags(r) ==
  LET ds == SelectSeq(report[1].details, LAMBDA d : d.recordIndex = r)
  IN  [k \in 1..Len(ds) |-> ds[k].field]

\* the tags of the handled fields of record r that reached the trie lookup
LookedUpTags(r) ==
  LET fs == SelectSeq(SubSeq(records[r].fields, 1, ProcessedFields(r)), ReachesLookup)
  IN  [k \in 1..Len(fs) |-> fs[k].tag]

\* C29: throughout a run, the three outcome counters add up to the number of
\* details, which is at most totalFieldsProcessed; the details come in
\* record order (1-based indexes) and, within a record, in field order, one
\* for each handled field that reached the lookup and none for any other;
\* totalRecords is the number of decoded records.
C29_Bookkeeping ==
  report # Null =>
    LET rep == report[1]
    IN  /\ rep.fieldsUpdated + rep.fieldsNotFound + rep.fieldsPoorMatch = Len(rep.details)
        /\ Len(rep.details) <= rep.totalFieldsProcessed
        /\ rep.totalRecords = Len(records)
        /\ \A a, b \in 1..Len(rep.details) :
             a < b => rep.details[a].recordIndex <= rep.details[b].recordIndex
        /\ \A d \in 1..Len(rep.details) : rep.details[d].recordIndex \in 1..Len(records)
        /\ \A r \in 1..Len(records) : DetailTags(r) = LookedUpTags(r)

\* a finished run with an update, several details and a counted field that
\* has no detail
C29_Witness ==
  /\ pc = "done"
  /\ report[1].fieldsUpdated >= 1
  /\ Len(report[1].details) >= 2
  /\ report[1].totalFieldsProcessed > Len(report[1].details)

\* the strings one insertion, deletion or substitution away from s
Neighbours(s) ==
  {SubSeq(s, 1, k - 1) \o SubSeq(s, k + 1, Len(s)) : k \in 1..Len(s)}
  \cup {SubSeq(s, 1, k - 1) \o <<c>> \o SubSeq(s, k + 1, Len(s)) :
          k \in 1..Len(s), c \in EditAlphabet}
  \cup {SubSeq(s, 1, k) \o <<c>> \o SubSeq(s, k + 1, Len(s)) :
          k \in 0..Len(s), c \in EditAlphabet}

\* the least k such that b is in the set of strings k edits away from the
\* start, near being the strings at most k edits away
RECURSIVE LeastEdits(_, _, _)
LeastEdits(near, b, k) ==
  IF b \in near THEN k
  ELSE LeastEdits(near \cup UNION {Neighbours(t) : t \in near}, b, k + 1)

\* the least number of single-character edits that turn a into b
EditDistance(a, b) == LeastEdits({a}, b, 0)

\* C27: levenshteinDistance(a, b) is the least number of single-character
\* insertions, deletions and substitutions turning a into b; it is 0 exactly
\* when a = b, the same in both directions, and the length of the other
\* string when one string is empty.
C27_EditDistance ==
  fn = "levenshteinDistance" =>
    LET a == args[1]
        b == args[2]
    IN  /\ out[1] = EditDistance(a, b)
        /\ (out[1] = 0) = (a = b)
        /\ out[1] = out[2]
        /\ a = <<>> => out[1] = Len(b)
        /\ b = <<>> => out[1] = Len(a)

\* 'aab' against 'ba': one deletion and one substitution
C27_Witness ==
  /\ fn = "levenshteinDistance"
  /\ args = << <<97, 97, 98>>, <<98, 97>> >>
  /\ out[1] = 2

\* p and q hold the same characters the same number of times
SameCharacters(p, q) == \A c \in Range(p) \cup Range(q) : Count(p, c) = Count(q, c)

IsSorted(s) == \A k \in 1..(Len(s) - 1) : s[k] <= s[k + 1]

\* a key with a letter starts with a letter: first the sorted characters from
\* the first letter on, then the sorted characters that sort before letters
LettersFirst(key) ==
  (\E k \in 1..Len(key) : key[k] \in LowerLetters) =>
    /\ key[1] \in LowerLetters
    /\ \E m \in 1..Len(key) :
         /\ IsSorted(SubSeq(key, 1, m)) /\ IsSorted(SubSeq(key, m + 1, Len(key)))
         /\ \A k \in 1..m : key[k] >= 97
         /\ \A k \in (m + 1)..Len(key) : key[k] < 97

\* s with A-Z replaced by a-z
Lowered(s) == [k \in 1..Len(s) |-> IF s[k] \in 65..90 THEN s[k] + 32 ELSE s[k]]

\* the lower-cased ASCII characters of s that are neither punctuation nor
\* whitespace
PlainCharacters(s) ==
  Lowered(SelectSeq(s, LAMBDA c : c <= 127 /\ c \notin Punctuation
                                   /\ c \notin AsciiWhitespace))

\* C26 as stated: the key is a rearrangement of the lower-cased ASCII
\* characters of the input that are neither punctuation nor whitespace; a key
\* with a letter has its letters first; the empty string has the empty key.
C26_AsciiOfInput ==
  fn = "normalizeString" =>
    /\ SameCharacters(out[1], PlainCharacters(args[1]))
    /\ LettersFirst(out[1])
    /\ args[1] = <<>> => out[1] = <<>>

\* C26, amended: the key is a rearrangement of the lower-cased ASCII
\* non-whitespace characters of the compatibility decomposition of the input
\* without its ASCII punctuation; a key with a letter has its letters first;
\* the empty string has the empty key.
C26_AsciiOfDecomposition ==
  fn = "normalizeString" =>
    /\ SameCharacters(out[1],
         Lowered(SelectSeq(NFKD(StripPunctuation(args[1])),
                           LAMBDA c : c <= 127 /\ c \notin AsciiWhitespace)))
    /\ LettersFirst(out[1])
    /\ args[1] = <<>> => out[1] = <<>>

\* 'B', e-acute, '1': the key is 'be1'
C26_Witness ==
  /\ fn = "normalizeString"
  /\ args[1] = <<66, 233, 49>>
  /\ out[1] = <<98, 101, 49>>

\* the positions of the $0 subfield elements of a datafield element
ZeroElements(df) == {k \in 1..Len(df.subfields) : df.subfields[k].code = <<48>>}

\* the datafield element of the field being handled, in a document
ElementOf(d) == d[1].records[recIdx + 1].children[CurrentField.element]

C25_Step ==
  (AtField /\ fileType = "xml" /\ report'[1].fieldsUpdated = report[1].fieldsUpdated + 1) =>
    LET before == ElementOf(doc)
        after == ElementOf(doc')
        uri == LastDetail(report').lccnUri
    IN  /\ IF ZeroElements(before) # {}
           THEN /\ Len(after.subfields) = Len(before.subfields)
                /\ after.subfields[Min(ZeroElements(before))] = [code |-> <<48>>, text |-> uri]
                /\ \A k \in 1..Len(before.subfields) :
                     k # Min(ZeroElements(before)) => after.subfields[k] = before.subfields[k]
           ELSE after.subfields = Append(before.subfields, [code |-> <<48>>, text |-> uri])
        /\ [after EXCEPT !.subfields = before.subfields] = before
        /\ \A r \in 1..Len(doc[1].records) : \A c \in 1..Len(doc[1].records[r].children) :
             <<r, c>> # <<recIdx + 1, CurrentField.element>> =>
               doc'[1].records[r].children[c] = doc[1].records[r].children[c]
        /\ updateSubfieldZeroDom(doc'[1], recIdx + 1, CurrentField, uri) = doc'[1]

\* C25: updateSubfieldZero(field, uri) on a field element with a $0 subfield
\* replaces the text of that subfield and adds no element; on a field element
\* without one it appends one $0 subfield with text uri as the last child;
\* every other subfield and every other element stay as they were, and a
\* second call with the same uri changes nothing.
C25_UpdateSubfieldZero == [][C25_Step]_vars

\* one document in which an existing $0 was rewritten in place between two
\* $a, and a $0 was appended to a field that had none
C25_Witness ==
  /\ fileType = "xml" /\ doc # Null
  /\ \E r, q \in 1..Len(doc[1].records) :
       /\ \E c \in 1..Len(doc[1].records[r].children) :
            LET df == doc[1].records[r].children[c]
            IN  /\ df.name = "datafield" /\ Len(df.subfields) = 3
                /\ df.subfields[2].code = <<48>>
                /\ df.subfields[2].text # <<111, 108, 100>>
       /\ \E c \in 1..Len(doc[1].records[q].children) :
            LET df == doc[1].records[q].children[c]
            IN  /\ df.name = "datafield" /\ Len(df.subfields) = 2
                /\ df.subfields[2].code = <<48>>

\* the subfields object holds, under every code of the field, the values of
\* all its occurrences in their order
KeepsAllValues(subfields, pairs) ==
  \A k \in 1..Len(pairs) :
    /\ HasProp(subfields, pairs[k][1])
    /\ GetProp(subfields, pairs[k][1]).values = ValuesOfCode(pairs, pairs[k][1][1])

\* C21: parseSubfields and the XML decoder keep, for every code of a data
\* field, the values of all its occurrences in their original order, empty
\* values included.
C21_RepeatedSubfieldsKept ==
  fn = "parseSubfields" =>
    /\ KeepsAllValues(out[1], args[1])
    /\ KeepsAllValues(out[2], args[1])

\* the codes of the occurrences in order of first occurrence
RECURSIVE FirstOccurrences(_, _)
FirstOccurrences(pairs, seen) ==
  IF pairs = <<>> THEN seen
  ELSE FirstOccurrences(Tail(pairs),
         IF \E k \in 1..Len(seen) : seen[k] = Head(pairs)[1] THEN seen
         ELSE Append(seen, Head(pairs)[1]))

\* delimiter, code, value for each of the values
ValueBytes(code, values) ==
  Concat(TupleOf([k \in 1..Len(values) |-> <<SUBFIELD_DELIMITER>> \o code \o values[k]]))

\* the subfields in code insertion order: the decoded codes in order of first
\* occurrence with all their values, $0 holding the URI once it is set, in
\* its place when the field had a $0 and last when it had none
InsertionOrderBytes(pairs, withZero) ==
  LET codes == FirstOccurrences(pairs, <<>>)
      hadZero == \E k \in 1..Len(codes) : codes[k] = <<48>>
  IN  Concat(TupleOf([k \in 1..Len(codes) |->
               IF withZero /\ codes[k] = <<48>> THEN ValueBytes(<<48>>, <<MatchedUri>>)
               ELSE ValueBytes(codes[k], ValuesOfCode(pairs, codes[k][1]))]))
      \o (IF withZero /\ ~hadZero THEN ValueBytes(<<48>>, <<MatchedUri>>) ELSE <<>>)

\* the bytes of the one field of the rebuilt record: after the leader and the
\* 13 bytes of the directory, up to the record terminator
RebuiltFieldBytes(record) == SubSeq(record, 38, Len(record) - 1)

\* C22: rebuildRecord writes a data field as indicator 1, indicator 2, the
\* subfields in code insertion order (each value as 0x1F, code, bytes) and
\* 0x1E; a $0 the pipeline adds to a field without one comes after all the
\* original subfields, and a '0' decoded after letter codes stays after them.
C22_InsertionOrder ==
  fn = "rebuildRecord" =>
    /\ out[1] # Null
    /\ RebuiltFieldBytes(out[1][1]) =
         <<49, 32>> \o InsertionOrderBytes(args[1], args[2]) \o <<FIELD_TERMINATOR>>

\* the directory entry rebuildRecord writes for field k of a record
EntryOf(record, k) ==
  LET parts == TupleOf([j \in 1..Len(record.fields) |-> FieldBytes(record.fields[j])])
  IN  DirectoryEntry(record.fields[k], Len(parts[k]), SumLengths(SubSeq(parts, 1, k - 1)))

\* every entry is 12 bytes long and lies at its place in the rebuilt record,
\* the directory terminator after the last one
TwelveByteEntries(record) ==
  LET rebuilt == rebuildRecord(record)
      n == Len(record.fields)
  IN  /\ rebuilt # Null
      /\ \A k \in 1..n :
           /\ Len(EntryOf(record, k)) = 12
           /\ SubSeq(rebuilt[1], 24 + 12 * (k - 1) + 1, 24 + 12 * k) = EntryOf(record, k)
      /\ rebuilt[1][24 + 12 * n + 1] = FIELD_TERMINATOR

\* C23: in every record a binary run rebuilds, each directory entry is
\* exactly 12 bytes (tag, 4 digits of length, 5 digits of start) and sits at
\* bytes [12k, 12k + 12) of the directory, fields of 10000 bytes or more
\* included, so no entry runs into the next or into the terminator.
C23_DirectoryEntries ==
  (fileType = "binary" /\ pc \in {"done", "failed"} /\ report # Null
     /\ recIdx = Len(records)) =>
    \A r \in 1..Len(records) : TwelveByteEntries(records[r])

\* the directory entry at a 0-based offset ends the directory: there is no
\* entry left, its tag is the field terminator, or its length or its start
\* does not parse as a number
EndsDirectory(data, directoryOffset) ==
  LET tag == Slice(data, Num(directoryOffset), Num(directoryOffset + 3))
  IN  \/ tag = <<>>
      \/ tag[1] = FIELD_TERMINATOR
      \/ IsNaN(parseInt(decode(Slice(data, Num(directoryOffset + 3), Num(directoryOffset + 7)))))
      \/ IsNaN(parseInt(decode(Slice(data, Num(directoryOffset + 7), Num(directoryOffset + 12)))))

\* the number of entries of the first record's directory before the one that
\* ends it
RECURSIVE EntriesBeforeEnd(_, _, _)
EntriesBeforeEnd(data, directoryOffset, directoryEnd) ==
  IF ~(directoryOffset < directoryEnd) \/ EndsDirectory(data, directoryOffset) THEN 0
  ELSE 1 + EntriesBeforeEnd(data, directoryOffset + 12, directoryEnd)

\* C24: the fields of a decoded record are those of the directory entries
\* before the first entry whose tag is the field terminator or whose length
\* or start is not a number; that entry and the entries after it give no
\* field.
C24_DirectoryEnds ==
  (parser = "BinaryMARCParser" /\ report = Null /\ records # <<>>) =>
    LET baseAddress == parseInt(substring(records[1].leader, 12, 17))
    IN  ~IsNaN(baseAddress) =>
          Len(records[1].fields) = EntriesBeforeEnd(file.bytes, 24, baseAddress[1] - 1)

\* the offset at which the scan of parse() stopped
ScanEnd == IF records = <<>> THEN 0 ELSE records[Len(records)].endOffset

\* C28: parse() returns on every buffer without throwing.  The records it
\* returns lie one after the other: each starts where the one before ended
\* (the first at 0), at a non-null byte with more than 24 bytes left, and ends
\* strictly later; the scan stopped at the end of the buffer, at a null byte,
\* with 24 bytes or fewer left, or at a record length that is not a positive
\* number; and every directory loop ended, with no more fields than 12-byte
\* slots between the leader and the end of the buffer, whatever the base
\* address.
C28_ParseTerminates ==
  parser = "BinaryMARCParser" =>
    /\ pc = "failed" => report # Null
    /\ \A k \in 1..Len(records) :
         /\ records[k].startOffset = (IF k = 1 THEN 0 ELSE records[k - 1].endOffset)
         /\ records[k].endOffset > records[k].startOffset
         /\ records[k].endOffset - records[k].startOffset =
              parseInt(substring(records[k].leader, 0, 5))[1]
         /\ records[k].startOffset + 24 < Len(file.bytes)
         /\ file.bytes[records[k].startOffset + 1] # 0
         /\ 12 * (Len(records[k].fields) - 1) < Len(file.bytes) - (records[k].startOffset + 24)
    /\ \/ ScanEnd >= Len(file.bytes)
       \/ file.bytes[ScanEnd + 1] = 0
       \/ ScanEnd + 24 >= Len(file.bytes)
       \/ parseRecord(file.bytes, ScanEnd) = Null

\* a record whose base address points far past the buffer: the directory loop
\* ran to the end of the data
C28_Witness ==
  /\ parser = "BinaryMARCParser"
  /\ Len(records) = 1
  /\ ~IsNaN(parseInt(substring(records[1].leader, 12, 17)))
  /\ parseInt(substring(records[1].leader, 12, 17))[1] > Len(file.bytes)
  /\ Len(records[1].fields) >= 3

====
